---- MODULE Spec2Model ----
(***************************************************************************)
(* FedEx invoice scraper: the background service worker (Driver) that      *)
(* sequences the per-amount and per-shipment work, and the replies of the  *)
(* content script (Page Agent) it talks to through sendToTab.              *)
(*                                                                         *)
(* One run of runExtraction is modelled.  JavaScript runs a handler to its *)
(* next await without interleaving, so every action below is the code      *)
(* between two await points: the settling of the awaited call, the code    *)
(* that follows it, and the issuing of the next awaited call.  A cancel    *)
(* message can only be handled between two such steps.                     *)
(***************************************************************************)
EXTENDS Integers, Sequences, FiniteSets, TLC

VARIABLES
  pc,         \* the await point runExtraction is suspended at
  amounts,    \* runExtraction's argument: the requested amounts
  cancelled,  \* the module-level cancellation flag
  allData,    \* amount -> InvoiceRecord, the ExtractionResult
  i,          \* index of the per-amount loop (0-based, as in the code)
  j,          \* index of the per-shipment loop (0-based)
  result,     \* reply of the last FIND_CLICK_AND_SCRAPE call
  shipments,  \* the shipment list being built for the current amount
  ctx,        \* the caller ensureContentScript returns to
  attempts,   \* per tracking id of the current amount whose click request
              \* was sent: how the attempt ended and the data scraped
  viewWait,   \* how the shipment-page wait of the current attempt settled
  lastCall,   \* the sendToTab call that settled in the most recent step
  stepLogs,   \* the LOG messages sent by the most recent step
  doneLog,    \* the DONE messages sent so far
  xlsx,       \* outcome of generateXlsx: "none", "built" or "failed"
  download,   \* chrome.downloads.download: "none", "requested", "ok", "failed"
  inFlight,   \* the navigation and Agent calls the Driver is still awaiting
  agentBusy,  \* the requests whose handler is executing in the page
  view,       \* the view of the billing application the tab is showing
  scriptRuns, \* how often the Agent script was run in the tab's document
  listeners,  \* the message listeners of the Agent registered in the document
  polls,      \* the rounds the polling loop of waitForNavAfterClick has made
  percent,    \* the percent of the last PROGRESS message of the run
  btnStartDisabled,   \* popup: btnStart.disabled
  btnCancelDisabled,  \* popup: btnCancel.disabled
  runs,       \* the runExtraction calls made so far, each at a coarse position
  str,        \* a string handed to a string function, one character per element
  out,        \* the string the function returned
  entries,    \* Object.entries(allData) as handed to generateXlsx
  wb,         \* the workbook generateXlsx built, or the fact that it threw
  fn,         \* the function that has been applied, "none" before
  pair,       \* two runs side by side, one whose notifications are delivered
              \* and one whose notifications all fail, each at a coarse position
  handlers,   \* the messages the listener of the Agent has received, each
              \* with the responses sent for it
  find,       \* one call of findClickAndScrapeInvoice: the page it works on,
              \* the await point it is at and what it has found
  waits       \* one handler of the Agent seen by its clock: the await point
              \* it is at and the milliseconds it has spent waiting

\* the state of the one run followed step by step, without the shared flag
runVars == <<pc, amounts, allData, i, j, result, shipments, ctx, attempts,
             viewWait, lastCall, stepLogs, doneLog, xlsx, download, inFlight,
             agentBusy, view, scriptRuns, listeners, polls, percent>>

\* the popup and the runs it has started
popupVars == <<btnStartDisabled, btnCancelDisabled, runs>>

\* argument and result of the functions checked on their own
pureVars == <<str, out, entries, wb, fn>>

pairVars == <<pair>>

\* the Agent taken on its own
agentVars == <<handlers, find, waits>>

vars == <<runVars, cancelled, popupVars, pureVars, pairVars, agentVars>>

----------------------------------------------------------------------------
(* Bounds of the model *)

MaxAmounts == 2

MaxTracking == 2

----------------------------------------------------------------------------
(* Values *)

AmountNames == <<"452.67", "1431.43", "10.00", "7.50", "99.99">>

TrackingNames ==
  <<"111111111111", "222222222222", "333333333333", "444444444444", "555555555555">>

Range(s) == {s[k] : k \in DOMAIN s}

\* The tracking-id lists the Agent can report for an invoice: the ids on the
\* page in document order, without repetition.
TrackingLists ==
  {SubSeq(TrackingNames, 1, n) : n \in 0..MaxTracking}

EmptyData == [l \in {} |-> ""]

\* the label -> value mapping scrapeShipmentDetails reads off the page of
\* shipment t
ShipmentFields(t) ==
  [l \in {"Tracking ID number", "Invoice number", "Status", "Total billed",
          "Sender Name"} |->
     IF l = "Tracking ID number" THEN t ELSE "value"]

----------------------------------------------------------------------------
(* Agent replies, as the content script's message listener builds them *)

NoResponse ==
  [answered |-> FALSE, success |-> FALSE, found |-> FALSE, amount |-> "", invoiceNumber |-> "",
   trackingIds |-> <<>>, hasData |-> FALSE, data |-> EmptyData, error |-> ""]

\* sendResponse({ success: false, error: err.message }) and the not-found
\* answer of findClickAndScrapeInvoice
FailureReply == [NoResponse EXCEPT !.answered = TRUE]

SuccessReply == [FailureReply EXCEPT !.success = TRUE]

\* findClickAndScrapeInvoice found no invoice of the amount:
\* { success: false, error: `Amount $${target} not found`, ... }
NotMatchedReply == [FailureReply EXCEPT !.error = "Amount not found"]

\* the catch of the listener: an exception thrown while the request was
\* handled, { success: false, error: err.message }
ThrownReply == [FailureReply EXCEPT !.error = "err.message"]

FoundReply(amount, tids) ==
  [SuccessReply EXCEPT !.found = TRUE, !.amount = amount,
                     !.invoiceNumber = "INV001",
                     !.trackingIds = tids]

DataReply(d) == [SuccessReply EXCEPT !.hasData = TRUE, !.data = d]

\* How a sendToTab promise can settle: the timer fires first, the channel
\* reports lastError, or the response of the Agent arrives, which takes a
\* listener of the Agent in the document.
SendToTab(replies) ==
  {[settled |-> "rejected", message |-> "sendToTab timeout", response |-> NoResponse],
   [settled |-> "rejected", message |-> "lastError", response |-> NoResponse]}
    \cup {[settled |-> "resolved", message |-> "", response |-> r] :
             r \in IF listeners > 0 THEN replies ELSE {}}

\* a settled sendToTab call, as the step that awaited it sees it
Call(action, s) == [action |-> action, settled |-> s.settled, message |-> s.message]

NoCall == [action |-> "none", settled |-> "none", message |-> ""]

----------------------------------------------------------------------------
(* Records, log entries and DONE payloads *)

NotFoundRecordBlank == [invoiceNumber |-> "", shipments |-> <<>>]

NotFoundRecord == [invoiceNumber |-> "NOT FOUND", shipments |-> <<>>]

ErrorRecordAsNotFound == [invoiceNumber |-> "NOT FOUND", shipments |-> <<>>]

ErrorRecord == [invoiceNumber |-> "ERROR", shipments |-> <<>>]

InvoiceRecordOrSentinel(inv, ships) ==
  [invoiceNumber |-> IF ships = <<>> THEN "NOT FOUND" ELSE inv, shipments |-> ships]

InvoiceRecord(inv, ships) == [invoiceNumber |-> inv, shipments |-> ships]

\* allData[amount] = rec
SetRecordAlone(d, amount, rec) == [a \in {amount} |-> rec]

\* allData[amount] = rec
SetRecord(d, amount, rec) ==
  [a \in DOMAIN d \cup {amount} |-> IF a = amount THEN rec ELSE d[a]]

Log(level, text) == [level |-> level, text |-> text]

\* A percent handed to sendProgress is kept as the exact fraction
\* <<num, den>> (the code computes it in floating point); this is p <= q
\* for two fractions with positive denominators.
AtMost(p, q) == p[1] * q[2] <= q[1] * p[2]

\* no PROGRESS message has been sent
NoPercent == <<>>

DoneErrorWithCounts(msg) ==
  [type |-> "DONE", error |-> msg, shipmentCount |-> 0, invoiceCount |-> 0]

\* sendDone({ error: ... })
DoneError(msg) == [type |-> "DONE", error |-> msg]

DoneSummary(d, as) ==
  LET Sum[k \in 0..Len(as)] ==
        IF k = 0 THEN 0
        ELSE Sum[k - 1] + (IF as[k] \in DOMAIN d THEN Len(d[as[k]].shipments) ELSE 0)
  IN  [type |-> "DONE", shipmentCount |-> Sum[Len(as)], invoiceCount |-> Len(as)]

NoAttempt == <<>>

\* a tracking id whose CLICK_TRACKING_ID request has been sent
Attempt(t) == [tid |-> t, outcome |-> "clickSent", data |-> EmptyData]

\* the attempt in progress, with its outcome
Outcome(atts, o) == [atts EXCEPT ![Len(atts)].outcome = o]

----------------------------------------------------------------------------
(* The pieces of runExtraction that decide what is recorded *)

OnLocateRejectedUnrecorded(d, amount) == d

\* catch branch of the combined call: allData[amount] = ERROR record
OnLocateRejected(d, amount) == SetRecord(d, amount, ErrorRecord)

PushShipmentFront(ships, data) == <<data>> \o ships

\* shipments.push(shipmentResult.data)
PushShipment(ships, data) == Append(ships, data)

AfterClickFailureBreaks(jj, n) == n

\* the `continue` after a failed click: on to the next tracking id
AfterClickFailure(jj, n) == jj + 1

\* shipmentResult && shipmentResult.success && shipmentResult.data
\* (an object without fields is truthy)
ScrapeAccepted(settled) ==
  /\ settled.settled = "resolved"
  /\ settled.response.success
  /\ settled.response.hasData

PingTakenAsAnswered(settled) == TRUE

\* resp && resp.success in ensureContentScript
PingAnswered(settled) ==
  settled.settled = "resolved" /\ settled.response.success

----------------------------------------------------------------------------
DriverInit ==
  /\ pc = "idle"
  /\ amounts = <<>>
  /\ cancelled = FALSE
  /\ allData = EmptyData
  /\ i = 0
  /\ j = 0
  /\ result = NoResponse
  /\ shipments = <<>>
  /\ ctx = "none"
  /\ attempts = NoAttempt
  /\ viewWait = "none"
  /\ lastCall = NoCall
  /\ stepLogs = <<>>
  /\ doneLog = <<>>
  /\ xlsx = "none"
  /\ download = "none"
  /\ inFlight = {}
  /\ agentBusy = {}
  /\ view = "elsewhere"
  /\ scriptRuns = 0
  /\ listeners = 0
  /\ polls = 0
  /\ percent = NoPercent

\* the popup as it opens, isRunning = false: the buttons as every handler
\* leaves them when nothing runs (Start enabled, Cancel disabled)
PopupInit ==
  /\ btnStartDisabled = FALSE
  /\ btnCancelDisabled = TRUE
  /\ runs = <<>>

\* an empty workbook, XLSX.utils.book_new()
NewBook == [SheetNames |-> <<>>, Sheets |-> <<>>, threw |-> FALSE]

\* no function applied to anything
PureIdle ==
  /\ str = <<>>
  /\ out = <<>>
  /\ entries = <<>>
  /\ wb = NewBook
  /\ fn = "none"

\* the two runs compared, and one of them before it is started
Copies == {"delivered", "failing"}

NoCopy ==
  [at |-> "idle", k |-> 0, n |-> 0, left |-> 0, sent |-> <<>>, records |-> <<>>,
   outcome |-> "none", received |-> 0]

PairIdle == pair = [c \in Copies |-> NoCopy]

\* findClickAndScrapeInvoice before it is called
NoFind ==
  [at |-> "idle", target |-> <<>>,
   page |-> [rows |-> <<>>, shown |-> 0, table |-> FALSE, viewport |-> FALSE],
   matched |-> 0, strategy |-> "none", navigated |-> FALSE, dom |-> <<>>,
   reply |-> NoResponse]

\* no handler is being timed
NoWaits ==
  [handler |-> "none", at |-> "idle", elapsed |-> 0, rounds |-> 0, collapsed |-> 0]

\* no message has reached the listener, no function of the Agent is running
AgentIdle == handlers = <<>> /\ find = NoFind /\ waits = NoWaits

Init == DriverInit /\ PopupInit /\ PureIdle /\ PairIdle /\ AgentIdle

----------------------------------------------------------------------------
(* Continuations shared by the steps *)

\* Steps 4 and 5, reached when the per-amount loop has run out: generateXlsx
\* (which may throw) and the download request.
ExportDownloadsAnyway(logs) ==
  \E built \in BOOLEAN :
    /\ xlsx' = IF built THEN "built" ELSE "failed"
    /\ download' = "requested"
    /\ pc' = "download"
    /\ doneLog' = IF built THEN doneLog
                  ELSE Append(doneLog, DoneError("XLSX generation failed"))
    /\ stepLogs' = logs \o <<Log("info", "Generating XLSX...")>>

Export(logs) ==
  \E built \in BOOLEAN :
    IF built
    THEN /\ xlsx' = "built"
         /\ download' = "requested"
         /\ pc' = "download"
         /\ doneLog' = doneLog
         /\ stepLogs' = logs \o <<Log("info", "Generating XLSX...")>>
    ELSE /\ xlsx' = "failed"
         /\ download' = download
         /\ pc' = "done"
         /\ doneLog' = Append(doneLog, DoneError("XLSX generation failed"))
         /\ stepLogs' = logs \o <<Log("info", "Generating XLSX..."),
                                  Log("error", "XLSX generation failed")>>

NextAmountWithoutReturn(ni, d, logs) ==
  /\ i' = ni
  /\ allData' = d
  /\ IF ni < Len(amounts)
     THEN /\ pc' = "tabsUpdate"
          /\ doneLog' = IF cancelled
                        THEN Append(doneLog, DoneError("Cancelled by user"))
                        ELSE doneLog
          /\ stepLogs' = logs \o <<Log("info", "Processing"), Log("info", "Navigating")>>
          /\ UNCHANGED <<xlsx, download>>
     ELSE Export(logs)

\* Top of the per-amount loop with loop index ni and result set d: the
\* cancellation checkpoint, then the navigation to the invoice list.
NextAmount(ni, d, logs) ==
  /\ i' = ni
  /\ allData' = d
  /\ IF ni < Len(amounts)
     THEN IF cancelled
          THEN /\ pc' = "done"
               /\ doneLog' = Append(doneLog, DoneError("Cancelled by user"))
               /\ stepLogs' = logs \o <<Log("error", "Extraction cancelled.")>>
               /\ UNCHANGED <<xlsx, download>>
          ELSE /\ pc' = "tabsUpdate"
               /\ stepLogs' = logs \o <<Log("info", "Processing"), Log("info", "Navigating")>>
               /\ UNCHANGED <<doneLog, xlsx, download>>
     ELSE Export(logs)

\* Top of the per-shipment loop with loop index nj: the cancellation
\* checkpoint, then either the next tracking id or, when the loop is left,
\* the finalisation of the amount.
ShipmentLoop(res, nj, ships, atts, logs) ==
  LET tids == res.trackingIds IN
  /\ j' = nj
  /\ shipments' = ships
  /\ viewWait' = "none"
  /\ IF nj < Len(tids) /\ ~cancelled
     THEN /\ IF nj > 0
             THEN /\ pc' = "navigateBack"
                  /\ attempts' = atts
                  /\ stepLogs' = logs \o <<Log("info", "Opening shipment"),
                                           Log("info", "Navigating back")>>
             ELSE /\ pc' = "clickTrackingId"
                  /\ attempts' = Append(atts, Attempt(tids[nj + 1]))
                  /\ stepLogs' = logs \o <<Log("info", "Opening shipment")>>
          /\ UNCHANGED <<i, allData, doneLog, xlsx, download>>
     ELSE /\ attempts' = atts
          /\ NextAmount(i + 1,
                        SetRecord(allData, amounts[i + 1],
                                  InvoiceRecord(res.invoiceNumber, ships)),
                        logs \o <<Log(IF Len(ships) > 0 THEN "success" ELSE "error",
                                      "Completed")>>)

\* The outer catch of runExtraction
Fatal(msg, logs) ==
  /\ pc' = "done"
  /\ doneLog' = Append(doneLog, DoneError(msg))
  /\ stepLogs' = logs \o <<Log("error", "Fatal error")>>
  /\ UNCHANGED <<i, allData, xlsx, download>>

AfterEnsureLocatesAgain(c) == "throttleList"

\* where ensureContentScript returns to
AfterEnsure(c) ==
  CASE c = "navigateTab" -> "throttleList"
    [] c = "backNav" -> "throttleBack"
    [] OTHER -> "throttleShipment"

----------------------------------------------------------------------------
(* Calls in flight *)

\* the navigation step or Agent request runExtraction awaits at an await point
PageCall(p) ==
  CASE p = "tabsUpdate" -> "tabs.update"
    [] p = "tabLoad" -> "waitForTabLoad"
    [] p = "ping" -> "PING"
    [] p = "executeScript" -> "executeScript"
    [] p = "findClickAndScrape" -> "FIND_CLICK_AND_SCRAPE"
    [] p = "navigateBack" -> "NAVIGATE_BACK"
    [] p = "waitInvoiceDetails" -> "WAIT_FOR_INVOICE_DETAILS"
    [] p = "clickTrackingId" -> "CLICK_TRACKING_ID"
    [] p = "waitShipmentPage" -> "WAIT_FOR_SHIPMENT_PAGE"
    [] p = "scrapeShipmentDetails" -> "SCRAPE_SHIPMENT_DETAILS"
    [] OTHER -> "none"

\* the message the Agent's listener receives for the call awaited at p
RequestAt(p) ==
  IF p \in {"tabsUpdate", "tabLoad", "executeScript"} THEN "none" ELSE PageCall(p)

\* calling without waiting: the promise joins the ones not yet settled
Issue(calls, c) == IF c = "none" THEN calls ELSE calls \cup {c}

AwaitSkipped(calls, c) == calls

\* await: the code after it runs once the promise has settled, by the
\* Agent's response, by lastError or by the timer of sendToTab
Await(calls, c) == calls \ {c}

\* What is left executing in the page once the Driver's call has settled.
\* Two handlers can wait inside the page for longer than the Driver's timer:
\* findClickAndScrapeInvoice (element waits, 30 scroll rounds of 800 ms,
\* URL wait; 90 s timer) and scrapeShipmentDetails (20 s element wait, then
\* 800 ms for every collapsed accordion; 30 s timer).
AfterSettle(busy, call) ==
  IF call.settled = "none" THEN busy
  ELSE IF /\ call.message = "sendToTab timeout"
          /\ call.action \in {"FIND_CLICK_AND_SCRAPE", "SCRAPE_SHIPMENT_DETAILS"}
       THEN busy
       ELSE busy \ {call.action}

\* window.history.back(): the entry before the one shown.  The tracking
\* entry was opened from the invoice-detail view, the invoice from the list,
\* and the list by chrome.tabs.update from whatever the tab showed before.
navigateBack(v) ==
  CASE v = "shipment" -> "invoice"
    [] v = "invoice" -> "list"
    [] OTHER -> "elsewhere"

\* The views the tab can show once the step is taken.  A completed load
\* shows the invoice list; findClickAndScrapeInvoice answers success after
\* it clicked the invoice link and read the shipment table of the invoice;
\* clickTrackingId answers true after it clicked the entry, which opens the
\* shipment; the NAVIGATE_BACK handler calls navigateBack() before it
\* answers, and when no answer arrived the call may or may not have run.
ViewAfter ==
  IF pc = "tabLoad" /\ pc' = "ping" THEN {"list"}
  ELSE IF pc = "findClickAndScrape" /\ result'.success THEN {"invoice"}
  ELSE IF pc = "clickTrackingId" /\ pc' = "waitShipmentPage" THEN {"shipment"}
  ELSE IF pc = "navigateBack"
       THEN IF lastCall'.settled = "resolved"
            THEN {navigateBack(view)}
            ELSE {view, navigateBack(view)}
  ELSE {view}

contentScriptUnguarded(n) == n + 1

\* The Agent script run in a document that holds n listeners of the Agent.
\* window.__fedexScraperLoaded is set by the first run, so a later run finds
\* it set and skips the whole script, the addListener call included.
contentScript(n) == IF n > 0 THEN n ELSE 1

\* the runs of the script in one document are counted up to this number,
\* which stands for "this often or more"
MaxScriptRuns == 2

\* Who has run the script in the document.  A completed load brings a new
\* document, into which the browser has injected the script or not (the
\* page may lie outside the pattern the script is declared for); a
\* successful chrome.scripting.executeScript runs it once more.
Installed ==
  IF pc = "tabLoad" /\ pc' = "ping"
  THEN \E m \in {0, 1} :
         /\ scriptRuns' = m
         /\ listeners' = IF m = 1 THEN contentScript(0) ELSE 0
  ELSE IF pc = "executeScript" /\ pc' = AfterEnsure(ctx)
  THEN /\ scriptRuns' = IF scriptRuns < MaxScriptRuns THEN scriptRuns + 1
                        ELSE scriptRuns
       /\ listeners' = contentScript(listeners)
  ELSE UNCHANGED <<scriptRuns, listeners>>

\* The sendProgress call of the step.  Each of the four calls is followed at
\* once by a sendLog call, which tells the calls apart: the top of the
\* per-amount loop, the top of the per-shipment loop, the export and the
\* download callback.  A step reaches at most one of them.
Progressed ==
  LET Logged(text) == \E k \in DOMAIN stepLogs' : stepLogs'[k].text = text
      totalSteps == Len(amounts')
      n == Len(result'.trackingIds)
  IN  percent' =
        \* const pctBase = (i / totalSteps) * 100
        IF Logged("Processing") THEN <<i' * 100, totalSteps>>
        \* const subPct =
        \*   pctBase + ((j + 1) / trackingIds.length / totalSteps) * 100
        ELSE IF Logged("Opening shipment")
        THEN <<i' * n * 100 + (j' + 1) * 100, n * totalSteps>>
        \* sendProgress(95, "Generating Excel file...")
        ELSE IF Logged("Generating XLSX...") THEN <<95, 1>>
        \* sendProgress(100, "Done!")
        ELSE IF Logged("XLSX downloaded!") THEN <<100, 1>>
        ELSE percent

PollsNotCounted == polls' = 0

\* The rounds of while (Date.now() - t0 < timeout) in waitForNavAfterClick:
\* counted while the loop or an ensureContentScript called from it runs
Polled ==
  polls' = IF pc = "navPoll" THEN polls + 1
           ELSE IF pc' \in {"navPoll", "ping", "executeScript"} THEN polls
           ELSE 0

\* Bookkeeping common to every step of the Driver: the awaited call has
\* settled, a completed tab load has replaced the page (and with it every
\* handler of the old page), and the next call is issued.
Settled ==
  /\ view' \in ViewAfter
  /\ Installed
  /\ inFlight' = Issue(Await(inFlight, PageCall(pc)), PageCall(pc'))
  /\ agentBusy' =
       LET left == IF pc = "tabLoad" /\ pc' = "ping"
                   THEN {}
                   ELSE AfterSettle(agentBusy, lastCall')
       \* the listener of the Agent starts an async function for every
       \* message it receives and returns; nothing queues a message behind
       \* a running handler
       IN  IF pc' # pc /\ RequestAt(pc') # "none"
           THEN left \cup {RequestAt(pc')}
           ELSE left
  /\ UNCHANGED <<popupVars, pureVars, pairVars, agentVars>>

\* a step of the run itself
Tracked == Settled /\ Polled /\ Progressed

----------------------------------------------------------------------------
(* The message listener of the service worker *)

\* START_EXTRACTION: runExtraction(msg.amounts, msg.tabId) up to its first
\* await, the tab update inside navigateTab
Start ==
  /\ pc = "idle"
  /\ lastCall' = NoCall
  \* What the popup hands over: a deduplicated, non-empty list of amounts.
  \* The Driver treats an amount as an opaque key, so one list per length
  \* stands for all lists of that length.
  /\ \E a \in {SubSeq(AmountNames, 1, n) : n \in 1..MaxAmounts} :
       /\ amounts' = a
       /\ cancelled' = FALSE
       /\ allData' = EmptyData
       /\ i' = 0
       /\ pc' = "tabsUpdate"
       /\ stepLogs' = <<Log("info", "Processing"), Log("info", "Navigating")>>
  /\ UNCHANGED <<viewWait, j, result, shipments, ctx, attempts, doneLog, xlsx, download>>
  /\ Tracked

\* CANCEL_EXTRACTION
Cancel ==
  /\ lastCall' = NoCall
  /\ cancelled' = TRUE
  /\ UNCHANGED <<viewWait, pc, amounts, allData, i, j, result, shipments, ctx, attempts,
                 stepLogs, doneLog, xlsx, download, polls, percent>>
  /\ Settled

----------------------------------------------------------------------------
(* navigateTab and ensureContentScript *)

\* await chrome.tabs.update(tabId, { url })
TabsUpdate ==
  /\ pc = "tabsUpdate"
  /\ lastCall' = NoCall
  /\ \/ /\ pc' = "tabLoad"
        /\ stepLogs' = <<>>
        /\ UNCHANGED <<i, allData, doneLog, xlsx, download>>
     \/ Fatal("tabs.update failed", <<>>)
  /\ UNCHANGED <<viewWait, amounts, cancelled, j, result, shipments, ctx, attempts>>
  /\ Tracked

\* await waitForTabLoad(tabId), then the bootstrap sleep and the PING of
\* ensureContentScript
TabLoad ==
  /\ pc = "tabLoad"
  /\ lastCall' = NoCall
  /\ \/ /\ pc' = "ping"
        /\ ctx' = "navigateTab"
        /\ stepLogs' = <<>>
        /\ UNCHANGED <<i, allData, doneLog, xlsx, download>>
     \/ /\ Fatal("Tab load timeout", <<>>)
        /\ ctx' = ctx
  /\ UNCHANGED <<viewWait, amounts, cancelled, j, result, shipments, attempts>>
  /\ Tracked

\* ensureContentScript: the PING settles; without a successful answer the
\* script is injected
Ping ==
  /\ pc = "ping"
  /\ \E s \in SendToTab({SuccessReply}) :
       /\ lastCall' = Call("PING", s)
       /\ pc' = IF PingAnswered(s) THEN AfterEnsure(ctx) ELSE "executeScript"
  /\ stepLogs' = <<>>
  /\ UNCHANGED <<amounts, cancelled, allData, i, j, result, shipments, ctx, viewWait,
                 attempts, doneLog, xlsx, download>>
  /\ Tracked

\* ensureContentScript: chrome.scripting.executeScript settles.  A rejection
\* propagates to the caller: swallowed inside the polling loop of
\* waitForNavAfterClick, up to the outer catch of runExtraction elsewhere.
ExecuteScript ==
  /\ pc = "executeScript"
  /\ lastCall' = NoCall
  /\ \/ /\ pc' = AfterEnsure(ctx)
        /\ stepLogs' = <<>>
        /\ UNCHANGED <<i, allData, doneLog, xlsx, download>>
     \/ IF ctx = "navPoll"
        THEN /\ pc' = "navPoll"
             /\ stepLogs' = <<>>
             /\ UNCHANGED <<i, allData, doneLog, xlsx, download>>
        ELSE Fatal("executeScript failed", <<>>)
  /\ UNCHANGED <<viewWait, amounts, cancelled, j, result, shipments, ctx, attempts>>
  /\ Tracked

----------------------------------------------------------------------------
(* Steps 1 and 2 of an amount *)

\* await throttle() after the list navigation, then the combined call is sent
ThrottleList ==
  /\ pc = "throttleList"
  /\ lastCall' = NoCall
  /\ pc' = "findClickAndScrape"
  /\ stepLogs' = <<Log("info", "Searching for invoice")>>
  /\ UNCHANGED <<amounts, cancelled, allData, i, j, result, shipments, ctx, viewWait,
                 attempts, doneLog, xlsx, download>>
  /\ Tracked

\* the FIND_CLICK_AND_SCRAPE call (90 s) settles
FindClickAndScrape ==
  /\ pc = "findClickAndScrape"
  /\ LET amount == amounts[i + 1] IN
     \E s \in SendToTab({NotMatchedReply, ThrownReply}
                          \cup {FoundReply(amount, t) : t \in TrackingLists}) :
       /\ lastCall' = Call("FIND_CLICK_AND_SCRAPE", s)
       /\ IF s.settled = "rejected"
          THEN /\ result' = NoResponse
               /\ NextAmount(i + 1, OnLocateRejected(allData, amount),
                             <<Log("error", "Error in combined find/scrape")>>)
               /\ j' = 0
               /\ shipments' = <<>>
               /\ attempts' = NoAttempt
               /\ UNCHANGED viewWait
          ELSE IF ~s.response.success
          THEN /\ result' = s.response
               /\ NextAmount(i + 1, SetRecord(allData, amount, NotFoundRecord),
                             <<Log("error", "Invoice not found")>>)
               /\ j' = 0
               /\ shipments' = <<>>
               /\ attempts' = NoAttempt
               /\ UNCHANGED viewWait
          ELSE IF Len(s.response.trackingIds) = 0
          THEN /\ result' = s.response
               /\ j' = 0
               /\ shipments' = <<>>
               /\ attempts' = NoAttempt
               /\ NextAmount(i + 1,
                             SetRecord(allData, amount,
                                       InvoiceRecord(s.response.invoiceNumber, <<>>)),
                             <<Log("success", "Found invoice"),
                               Log("error", "Found 0 tracking ID(s)")>>)
               /\ UNCHANGED viewWait
          ELSE /\ result' = s.response
               /\ ShipmentLoop(s.response, 0, <<>>, NoAttempt,
                               <<Log("success", "Found invoice"),
                                 Log("success", "Found tracking ID(s)")>>)
  /\ UNCHANGED <<amounts, cancelled, ctx>>
  /\ Tracked

----------------------------------------------------------------------------
(* Step 3: the per-shipment loop *)

\* the NAVIGATE_BACK call (5 s) settles; a rejection is swallowed, and the
\* WAIT_FOR_INVOICE_DETAILS call is sent
NavigateBack ==
  /\ pc = "navigateBack"
  /\ \E s \in SendToTab({SuccessReply, FailureReply}) :
       /\ lastCall' = Call("NAVIGATE_BACK", s)
       /\ pc' = "waitInvoiceDetails"
       /\ stepLogs' = <<>>
  /\ UNCHANGED <<amounts, cancelled, allData, i, j, result, shipments, ctx, viewWait,
                 attempts, doneLog, xlsx, download>>
  /\ Tracked

\* the WAIT_FOR_INVOICE_DETAILS call (30 s) settles
WaitInvoiceDetails ==
  /\ pc = "waitInvoiceDetails"
  /\ \E s \in SendToTab({SuccessReply}) :
       /\ lastCall' = Call("WAIT_FOR_INVOICE_DETAILS", s)
       /\ IF s.settled = "rejected"
          THEN /\ pc' = "ping"
               /\ ctx' = "backNav"
               /\ stepLogs' = <<Log("error", "Back-nav failed")>>
          ELSE /\ pc' = "throttleBack"
               /\ ctx' = ctx
               /\ stepLogs' = <<>>
  /\ UNCHANGED <<amounts, cancelled, allData, i, j, result, shipments, viewWait,
                 attempts, doneLog, xlsx, download>>
  /\ Tracked

\* await throttle() after the back navigation, then the click is sent
ThrottleBack ==
  /\ pc = "throttleBack"
  /\ lastCall' = NoCall
  /\ pc' = "clickTrackingId"
  /\ attempts' = Append(attempts, Attempt(result.trackingIds[j + 1]))
  /\ stepLogs' = <<>>
  /\ UNCHANGED <<amounts, cancelled, allData, i, j, result, shipments, ctx, viewWait,
                 doneLog, xlsx, download>>
  /\ Tracked

\* the CLICK_TRACKING_ID call (10 s) settles
ClickTrackingId ==
  /\ pc = "clickTrackingId"
  /\ \E s \in SendToTab({SuccessReply, FailureReply}) :
       /\ lastCall' = Call("CLICK_TRACKING_ID", s)
       /\ IF s.settled = "resolved" /\ s.response.success
          THEN /\ pc' = "waitShipmentPage"
               /\ attempts' = Outcome(attempts, "opened")
               /\ stepLogs' = <<>>
               /\ UNCHANGED <<viewWait, allData, i, j, shipments, doneLog, xlsx, download>>
          ELSE ShipmentLoop(result,
                            AfterClickFailure(j, Len(result.trackingIds)),
                            shipments,
                            Outcome(attempts, "clickFailed"),
                            <<Log("error",
                                  IF s.settled = "rejected"
                                  THEN "Error clicking tracking ID"
                                  ELSE "Could not click tracking ID")>>)
  /\ UNCHANGED <<amounts, cancelled, result, ctx>>
  /\ Tracked

\* the WAIT_FOR_SHIPMENT_PAGE call (30 s) settles; on a rejection the
\* Driver falls back to waitForNavAfterClick
WaitShipmentPage ==
  /\ pc = "waitShipmentPage"
  /\ \E s \in SendToTab({SuccessReply}) :
       /\ lastCall' = Call("WAIT_FOR_SHIPMENT_PAGE", s)
       /\ IF s.settled = "rejected"
          THEN /\ pc' = "navPoll"
               /\ viewWait' = "failed"
               /\ stepLogs' = <<Log("error", "Shipment page wait failed")>>
          ELSE /\ pc' = "throttleShipment"
               /\ viewWait' = "ok"
               /\ stepLogs' = <<>>
  /\ UNCHANGED <<amounts, cancelled, allData, i, j, result, shipments, ctx,
                 attempts, doneLog, xlsx, download>>
  /\ Tracked

\* the rounds of 500 ms and more that fit into the 15 s of the loop
MaxPolls == 2

\* waitForNavAfterClick(tabId, "shipment-detail", 15000): one round of the
\* polling loop.  Either the tab shows the expected URL (a tab-load timeout
\* there is swallowed by the loop's catch and the loop goes on), or the 15 s
\* are over and the fallback runs ensureContentScript outside any try.
NavPoll ==
  /\ pc = "navPoll"
  /\ lastCall' = NoCall
  /\ \/ /\ polls < MaxPolls
        /\ pc' = "ping"
        /\ ctx' = "navPoll"
     \/ /\ polls < MaxPolls
        /\ pc' = "navPoll"
        /\ ctx' = ctx
     \/ /\ pc' = "ping"
        /\ ctx' = "navFallback"
  /\ stepLogs' = <<>>
  /\ UNCHANGED <<amounts, cancelled, allData, i, j, result, shipments, viewWait,
                 attempts, doneLog, xlsx, download>>
  /\ Tracked

\* await throttle() after the shipment page wait, then the scrape is sent
ThrottleShipment ==
  /\ pc = "throttleShipment"
  /\ lastCall' = NoCall
  /\ pc' = "scrapeShipmentDetails"
  /\ stepLogs' = <<>>
  /\ UNCHANGED <<amounts, cancelled, allData, i, j, result, shipments, ctx, viewWait,
                 attempts, doneLog, xlsx, download>>
  /\ Tracked

\* the SCRAPE_SHIPMENT_DETAILS call (30 s) settles
ScrapeShipmentDetails ==
  /\ pc = "scrapeShipmentDetails"
  \* the page scraped is the one the click on the id opened; it may show no
  \* field
  /\ \E s \in SendToTab({FailureReply, DataReply(EmptyData),
                         DataReply(ShipmentFields(result.trackingIds[j + 1]))}) :
       /\ lastCall' = Call("SCRAPE_SHIPMENT_DETAILS", s)
       /\ IF s.settled = "rejected"
          THEN ShipmentLoop(result, j + 1, shipments,
                            Outcome(attempts, "scrapeRejected"),
                            <<Log("error", "Error scraping shipment")>>)
          ELSE IF ScrapeAccepted(s)
          THEN /\ pc' = "throttleNext"
               /\ shipments' = PushShipment(shipments, s.response.data)
               /\ attempts' = [Outcome(attempts, "pushed") EXCEPT
                                 ![Len(attempts)].data = s.response.data]
               /\ viewWait' = viewWait
               /\ stepLogs' = <<Log("success", "Scraped shipment")>>
               /\ UNCHANGED <<allData, i, j, doneLog, xlsx, download>>
          ELSE /\ pc' = "throttleNext"
               /\ attempts' = Outcome(attempts, "refused")
               /\ viewWait' = viewWait
               /\ stepLogs' = <<Log("error", "Empty data")>>
               /\ UNCHANGED <<allData, i, j, shipments, doneLog, xlsx, download>>
  /\ UNCHANGED <<amounts, cancelled, result, ctx>>
  /\ Tracked

\* await throttle() at the end of the loop body, then the next round
ThrottleNext ==
  /\ pc = "throttleNext"
  /\ lastCall' = NoCall
  /\ ShipmentLoop(result, j + 1, shipments, attempts, <<>>)
  /\ UNCHANGED <<amounts, cancelled, result, ctx>>
  /\ Tracked

----------------------------------------------------------------------------
(* Step 5: the callback of chrome.downloads.download *)

Download ==
  /\ pc = "download"
  /\ lastCall' = NoCall
  /\ pc' = "done"
  /\ \/ /\ download' = "failed"
        /\ doneLog' = Append(doneLog, DoneError("download lastError"))
        /\ stepLogs' = <<Log("error", "Download error")>>
     \/ /\ download' = "ok"
        /\ doneLog' = Append(doneLog, DoneSummary(allData, amounts))
        /\ stepLogs' = <<Log("success", "XLSX downloaded!")>>
  /\ UNCHANGED <<amounts, cancelled, allData, i, j, result, shipments, ctx, viewWait,
                 attempts, xlsx>>
  /\ Tracked

----------------------------------------------------------------------------
(* The Page Agent *)

\* a handler the Driver no longer awaits comes to its end
AgentFinish ==
  /\ \E a \in agentBusy \ {RequestAt(pc)} : agentBusy' = agentBusy \ {a}
  /\ UNCHANGED <<pc, amounts, cancelled, allData, i, j, result, shipments, ctx,
                 attempts, viewWait, lastCall, stepLogs, doneLog, xlsx, download,
                 inFlight, view, scriptRuns, listeners, polls, percent>>
  /\ UNCHANGED <<popupVars, pureVars, pairVars, agentVars>>

----------------------------------------------------------------------------
Next ==
  \/ Start
  \/ Cancel
  \/ TabsUpdate
  \/ TabLoad
  \/ Ping
  \/ ExecuteScript
  \/ ThrottleList
  \/ FindClickAndScrape
  \/ NavigateBack
  \/ WaitInvoiceDetails
  \/ ThrottleBack
  \/ ClickTrackingId
  \/ WaitShipmentPage
  \/ NavPoll
  \/ ThrottleShipment
  \/ ScrapeShipmentDetails
  \/ ThrottleNext
  \/ Download
  \/ AgentFinish

Spec == Init /\ [][Next]_vars

\* the steps of a run: the settling of the call it awaits and the code up
\* to the next await
DriverStep ==
  \/ TabsUpdate
  \/ TabLoad
  \/ Ping
  \/ ExecuteScript
  \/ ThrottleList
  \/ FindClickAndScrape
  \/ NavigateBack
  \/ WaitInvoiceDetails
  \/ ThrottleBack
  \/ ClickTrackingId
  \/ WaitShipmentPage
  \/ NavPoll
  \/ ThrottleShipment
  \/ ScrapeShipmentDetails
  \/ ThrottleNext
  \/ Download

\* Every promise the run awaits settles: a timer (sleep, throttle, the timers
\* of sendToTab and waitForTabLoad) fires, or the browser call returns.
SpecLive == Spec /\ WF_vars(DriverStep)

----------------------------------------------------------------------------
(* The popup, the message listener and the runs it starts.  Every           *)
(* START_EXTRACTION message calls runExtraction; here each call is followed *)
(* only as far as whether it is navigating the tab, talking to the Agent,   *)
(* or over.                                                                 *)

MaxRuns == 2

\* the runs that have not reached a terminal state
Live == {r \in DOMAIN runs : runs[r].at # "done"}

\* DONE received by the popup
OnDone ==
  /\ btnStartDisabled' = FALSE
  /\ btnCancelDisabled' = TRUE

\* btnStart click: the buttons flip and START_EXTRACTION is sent; the
\* listener acknowledges and calls runExtraction, whatever the earlier calls
\* are doing, and runExtraction clears the flag
ClickStart ==
  /\ ~btnStartDisabled
  /\ Len(runs) < MaxRuns
  /\ \E n \in 1..MaxAmounts : runs' = Append(runs, [at |-> "navigate", k |-> 0, n |-> n])
  /\ cancelled' = FALSE
  /\ btnStartDisabled' = TRUE
  /\ btnCancelDisabled' = FALSE
  /\ UNCHANGED <<runVars, pureVars, pairVars, agentVars>>

\* btnCancel click: CANCEL_EXTRACTION is sent and Start is enabled again at
\* once, without waiting for DONE
ClickCancel ==
  /\ ~btnCancelDisabled
  /\ cancelled' = TRUE
  /\ btnStartDisabled' = FALSE
  /\ btnCancelDisabled' = TRUE
  /\ UNCHANGED <<runVars, runs, pureVars, pairVars, agentVars>>

\* navigateTab of run r settles: the Agent requests of the amount follow,
\* or the rejection reaches the outer catch
RunNavigate ==
  /\ \E r \in DOMAIN runs :
       /\ runs[r].at = "navigate"
       /\ \/ /\ runs' = [runs EXCEPT ![r].at = "agent"]
             /\ UNCHANGED <<btnStartDisabled, btnCancelDisabled>>
          \/ /\ runs' = [runs EXCEPT ![r].at = "done"]
             /\ OnDone
  /\ UNCHANGED <<runVars, cancelled, pureVars, pairVars, agentVars>>

\* the Agent requests of the current amount of run r are over: the loop
\* moves on, to the cancel check and the next navigation, or past the last
\* amount to export, download and DONE
RunAgent ==
  /\ \E r \in DOMAIN runs :
       /\ runs[r].at = "agent"
       /\ IF runs[r].k + 1 < runs[r].n /\ ~cancelled
          THEN /\ runs' = [runs EXCEPT ![r].at = "navigate",
                                       ![r].k = runs[r].k + 1]
               /\ UNCHANGED <<btnStartDisabled, btnCancelDisabled>>
          ELSE /\ runs' = [runs EXCEPT ![r].at = "done", ![r].k = runs[r].k + 1]
               /\ OnDone
  /\ UNCHANGED <<runVars, cancelled, pureVars, pairVars, agentVars>>

NextRuns ==
  \/ ClickStart
  \/ ClickCancel
  \/ RunNavigate
  \/ RunAgent

SpecRuns == Init /\ [][NextRuns]_vars

----------------------------------------------------------------------------
(* Notifications.  Two calls of runExtraction with the same amounts are    *)
(* followed side by side, step by step, with the same behaviour of the tab *)
(* and of the Agent; in one every chrome.runtime.sendMessage of the Driver *)
(* is delivered, in the other every one is rejected (no popup is open).    *)
(* A step is the notifications of a stretch of runExtraction, the request  *)
(* that follows them and what its settling leads to.                       *)

SendThrows(ok) == IF ok THEN "sent" ELSE "thrown"

\* chrome.runtime.sendMessage(...).catch(() => {}): a rejected delivery is
\* swallowed, the caller never sees it
SendMessage(ok) == "sent"

\* how the tab or the Agent can behave at a position
BehaviourAt(at) ==
  CASE at = "navigate" -> {[kind |-> "loaded", ids |-> 0], [kind |-> "failed", ids |-> 0]}
    [] at = "locate" ->
         {[kind |-> "rejected", ids |-> 0], [kind |-> "notFound", ids |-> 0]}
           \cup {[kind |-> "found", ids |-> m] : m \in 0..MaxTracking}
    [] at = "shipment" -> {[kind |-> "scraped", ids |-> 0], [kind |-> "failed", ids |-> 0]}
    [] at = "export" -> {[kind |-> "built", ids |-> 0], [kind |-> "failed", ids |-> 0]}
    [] at = "download" -> {[kind |-> "ok", ids |-> 0], [kind |-> "failed", ids |-> 0]}
    [] OTHER -> {}

\* the run r has finished an amount with record rec: the next amount, or
\* the export once the loop has run out
AmountDone(r, rec) ==
  [r EXCEPT !.records = Append(@, rec),
            !.k = @ + 1,
            !.left = 0,
            !.at = IF r.k + 1 < r.n THEN "navigate" ELSE "export"]

\* the outer catch
Caught(r) == [r EXCEPT !.at = "done", !.outcome = "fatal"]

\* one step of a run: its notifications are sent with delivery outcome ok,
\* its request is sent and settles as b says
RunStep(r, b, ok) ==
  LET told == [r EXCEPT !.received = IF ok THEN @ + 1 ELSE @] IN
  IF SendMessage(ok) = "thrown" THEN Caught(told)
  ELSE CASE r.at = "navigate" ->
              LET q == [told EXCEPT !.sent = Append(@, "tabs.update")] IN
              IF b.kind = "loaded" THEN [q EXCEPT !.at = "locate"] ELSE Caught(q)
         [] r.at = "locate" ->
              LET q == [told EXCEPT !.sent = Append(@, "FIND_CLICK_AND_SCRAPE")] IN
              IF b.kind = "rejected" THEN AmountDone(q, "ERROR")
              ELSE IF b.kind = "notFound" THEN AmountDone(q, "NOT FOUND")
              ELSE IF b.ids = 0 THEN AmountDone(q, "INV001")
              ELSE [q EXCEPT !.at = "shipment", !.left = b.ids]
         [] r.at = "shipment" ->
              LET q == [told EXCEPT !.sent = Append(@, "CLICK_TRACKING_ID"),
                                    !.left = @ - 1] IN
              IF q.left = 0 THEN AmountDone(q, "INV001") ELSE q
         [] r.at = "export" ->
              IF b.kind = "built" THEN [told EXCEPT !.at = "download"]
              ELSE [told EXCEPT !.at = "done", !.outcome = "exportFailed"]
         [] r.at = "download" ->
              [told EXCEPT !.at = "done",
                           !.outcome = IF b.kind = "ok" THEN "downloaded"
                                       ELSE "downloadFailed"]
         [] OTHER -> r

\* both runs are started with the same amounts
PairStart ==
  /\ \A c \in Copies : pair[c].at = "idle"
  /\ \E n \in 1..MaxAmounts :
       pair' = [c \in Copies |-> [NoCopy EXCEPT !.at = "navigate", !.n = n]]
  /\ UNCHANGED <<runVars, cancelled, popupVars, pureVars, agentVars>>

\* both runs take their next step, against the same behaviour of the tab
\* and the Agent
PairStep ==
  /\ \E b \in BehaviourAt(pair["delivered"].at) :
       pair' = [c \in Copies |-> RunStep(pair[c], b, c = "delivered")]
  /\ UNCHANGED <<runVars, cancelled, popupVars, pureVars, agentVars>>

NextNotify ==
  \/ PairStart
  \/ PairStep

SpecNotify == Init /\ [][NextNotify]_vars

----------------------------------------------------------------------------
(* The message listener of the Agent, taken on its own *)

MaxMessages == 2

NeverWithoutAction(action) == FALSE

\* if (!msg.action) return false;
WithoutAction(action) == action = ""

\* what the case of the switch hands to sendResponse when nothing throws
CaseReplies(action) ==
  CASE action = "FIND_CLICK_AND_SCRAPE" ->
         {NotMatchedReply} \cup {FoundReply(AmountNames[1], t) : t \in TrackingLists}
    [] action = "CLICK_TRACKING_ID" -> {SuccessReply, FailureReply}
    [] action = "SCRAPE_SHIPMENT_DETAILS" ->
         {DataReply(EmptyData), DataReply(ShipmentFields(TrackingNames[1]))}
    [] action \in {"WAIT_FOR_SHIPMENT_PAGE", "WAIT_FOR_INVOICE_DETAILS",
                   "NAVIGATE_BACK", "DIAGNOSE", "PING"} -> {SuccessReply}
    \* default: sendResponse({ success: false, error: "Unknown action: " + ... })
    [] OTHER -> {[FailureReply EXCEPT !.error = "Unknown action"]}

\* the listener is called with a message: without an action it returns
\* false at once, otherwise it starts the async function and returns true
OnMessage ==
  /\ Len(handlers) < MaxMessages
  \* msg.action of the messages that reach the listener: the requests of
  \* the Driver, an action the switch does not know, and "" for a message
  \* without an action (the PROGRESS, LOG and DONE broadcasts reach it too)
  /\ \E a \in {"FIND_CLICK_AND_SCRAPE", "CLICK_TRACKING_ID",
               "SCRAPE_SHIPMENT_DETAILS", "WAIT_FOR_SHIPMENT_PAGE",
               "WAIT_FOR_INVOICE_DETAILS", "NAVIGATE_BACK", "DIAGNOSE", "PING",
               "UNKNOWN", ""} :
       handlers' = Append(handlers,
                          [action |-> a,
                           at |-> IF WithoutAction(a) THEN "ignored" ELSE "running",
                           threw |-> FALSE,
                           responses |-> <<>>])
  /\ UNCHANGED <<runVars, cancelled, popupVars, pureVars, pairVars, find, waits>>

\* the case of the switch comes to its sendResponse and break
HandlerReturns ==
  /\ \E k \in DOMAIN handlers :
       /\ handlers[k].at = "running"
       /\ \E r \in CaseReplies(handlers[k].action) :
            handlers' = [handlers EXCEPT ![k].at = "finished",
                                         ![k].responses = Append(@, r)]
  /\ UNCHANGED <<runVars, cancelled, popupVars, pureVars, pairVars, find, waits>>

\* the case throws before its sendResponse; the catch answers
HandlerThrows ==
  /\ \E k \in DOMAIN handlers :
       /\ handlers[k].at = "running"
       \* the cases that call into the page and can throw; the two waits
       \* catch the failure of their own URL wait
       /\ handlers[k].action \in {"FIND_CLICK_AND_SCRAPE", "CLICK_TRACKING_ID",
                                  "SCRAPE_SHIPMENT_DETAILS", "DIAGNOSE"}
       /\ handlers' = [handlers EXCEPT ![k].at = "finished",
                                       ![k].threw = TRUE,
                                       ![k].responses = Append(@, ThrownReply)]
  /\ UNCHANGED <<runVars, cancelled, popupVars, pureVars, pairVars, find, waits>>

NextAgent ==
  \/ OnMessage
  \/ HandlerReturns
  \/ HandlerThrows

SpecAgent == Init /\ [][NextAgent]_vars

----------------------------------------------------------------------------
(* Strings and the functions on them.  A string is the sequence of its     *)
(* characters.                                                             *)

MaxPad == 31
MaxTail == 2
MaxRaw == 4

\* n digits
Pad(n) == [k \in 1..n |-> "9"]

\* "$1,431.43" and "452.67"
FormattedAmount == <<"$", "1", ",", "4", "3", "1", ".", "4", "3">>

PlainAmount == <<"4", "5", "2", ".", "6", "7">>

\* The strings the functions are applied to: a run of digits and a tail,
\* the two amounts above, and what is typed into the amounts field (digits,
\* the point, a separator, the currency sign and a blank).
Strings ==
  LET Alphabet == {"1", "7", ".", "$", ",", "[", "]", ":", "*", "?", "/", "\\"}
      RawAlphabet == {"1", "7", ".", ",", "$", " "}
  IN  {Pad(n) \o t : n \in 0..MaxPad,
                     t \in UNION {[1..m -> Alphabet] : m \in 0..MaxTail}}
        \cup {FormattedAmount, PlainAmount}
        \cup UNION {[1..m -> RawAlphabet] : m \in 0..MaxRaw}

\* name.replace(/<class>/g, c)
Replace(name, class, c) ==
  [k \in DOMAIN name |-> IF name[k] \in class THEN c ELSE name[k]]

\* the class [[\]:*?/\\] of sanitizeSheetName
IllegalInSheetName == {"[", "]", ":", "*", "?", "/", "\\"}

SheetNameMax == 31

sanitizeSheetNameUncut(name) == Replace(name, IllegalInSheetName, "_")

\* name.replace(/[[\]:*?/\\]/g, "_").slice(0, 31)
sanitizeSheetName(name) ==
  LET replaced == Replace(name, IllegalInSheetName, "_")
  IN  SubSeq(replaced, 1,
             IF Len(replaced) < SheetNameMax THEN Len(replaced) ELSE SheetNameMax)

\* the characters outside the class [^0-9.] of normalizeAmount
AmountChars == {"0", "1", "2", "3", "4", "5", "6", "7", "8", "9", "."}

IsAmountChar(c) == c \in AmountChars

IsDigit(c) == c \in AmountChars \ {"."}

normalizeAmountDigitsOnly(s) == SelectSeq(s, IsDigit)

\* str.replace(/[^0-9.]/g, "")
normalizeAmount(s) == SelectSeq(s, IsAmountChar)

----------------------------------------------------------------------------
(* parseAmounts of the popup *)

Whitespace == {" ", "\t", "\n", "\r"}

RECURSIVE SplitAt(_, _, _, _)
\* raw.split(/[,\n\r;]+/): the pieces between separators; the empty pieces
\* this leaves between adjacent separators are dropped by filter(Boolean)
SplitAt(raw, k, toks, cur) ==
  IF k > Len(raw) THEN Append(toks, cur)
  ELSE IF raw[k] \in {",", "\n", "\r", ";"}
       THEN SplitAt(raw, k + 1, Append(toks, cur), <<>>)
       ELSE SplitAt(raw, k + 1, toks, Append(cur, raw[k]))

RECURSIVE TrimStart(_)
TrimStart(t) ==
  IF t # <<>> /\ Head(t) \in Whitespace THEN TrimStart(Tail(t)) ELSE t

RECURSIVE TrimEnd(_)
TrimEnd(t) ==
  IF t # <<>> /\ t[Len(t)] \in Whitespace
  THEN TrimEnd(SubSeq(t, 1, Len(t) - 1))
  ELSE t

\* .map((t) => t.trim()).filter(Boolean)
Tokens(raw) ==
  LET pieces == SplitAt(raw, 1, <<>>, <<>>)
      trimmed == [k \in DOMAIN pieces |-> TrimEnd(TrimStart(pieces[k]))]
  IN  SelectSeq(trimmed, LAMBDA t : t # <<>>)

\* /^\d+(\.\d{1,2})?$/.test(c)
MatchesAmount(c) ==
  LET points == {k \in DOMAIN c : c[k] = "."}
  IN  /\ c # <<>>
      /\ \A k \in DOMAIN c : IsAmountChar(c[k])
      /\ Cardinality(points) <= 1
      /\ \A k \in points : k > 1 /\ Len(c) - k \in {1, 2}

RECURSIVE Dedupe(_, _)
\* [...new Set(amounts)]: the first occurrence of every value, in order
Dedupe(seen, rest) ==
  IF rest = <<>> THEN seen
  ELSE IF Head(rest) \in Range(seen)
       THEN Dedupe(seen, Tail(rest))
       ELSE Dedupe(Append(seen, Head(rest)), Tail(rest))

parseAmounts(raw) ==
  LET tokens == Tokens(raw)
      cleaned == [k \in DOMAIN tokens |-> SelectSeq(tokens[k], IsAmountChar)]
  IN  Dedupe(<<>>, SelectSeq(cleaned, MatchesAmount))

----------------------------------------------------------------------------
(* generateXlsx *)

\* the columns generateXlsx puts first, in this order
preferredOrder ==
  <<"Tracking ID number", "Invoice number", "Account number", "Invoice date",
    "Due date", "Status", "Total billed", "Tracking ID balance due",
    "Sender Name", "Sender Company", "Sender Address",
    "Sender City/State/Zip", "Sender Country", "Recipient Name",
    "Recipient Company", "Recipient Address", "Recipient City/State/Zip",
    "Recipient Country">>

\* the sheet of a record without shipments
NoticeSheet(amount, invoiceData) ==
  << <<"Invoice Number",
       IF invoiceData.invoiceNumber = "" THEN "N/A" ELSE invoiceData.invoiceNumber>>,
     <<"Amount", <<"$">> \o amount>>,
     <<"Note", "No shipment details found">> >>

allKeys(ships) == UNION {DOMAIN ships[k] : k \in DOMAIN ships}

\* the characters of the labels of the model that preferredOrder does not
\* name (labels of the accordion sections)
Chars(l) ==
  CASE l = "Zone" -> <<"Z", "o", "n", "e">>
    [] l = "Ref: PO" -> <<"R", "e", "f", ":", " ", "P", "O">>
    [] l = "Charge: Fuel" ->
         <<"C", "h", "a", "r", "g", "e", ":", " ", "F", "u", "e", "l">>
    [] l = "Charge: Tax" ->
         <<"C", "h", "a", "r", "g", "e", ":", " ", "T", "a", "x">>

\* the UTF-16 code unit of a character, which Array.prototype.sort without
\* a comparator orders strings by
CodeUnit(c) ==
  CASE c = " " -> 32 [] c = ":" -> 58 [] c = "C" -> 67 [] c = "F" -> 70
    [] c = "O" -> 79 [] c = "P" -> 80 [] c = "R" -> 82 [] c = "T" -> 84
    [] c = "Z" -> 90 [] c = "a" -> 97 [] c = "e" -> 101 [] c = "f" -> 102
    [] c = "g" -> 103 [] c = "h" -> 104 [] c = "l" -> 108 [] c = "n" -> 110
    [] c = "o" -> 111 [] c = "r" -> 114 [] c = "u" -> 117 [] c = "x" -> 120

RECURSIVE Precedes(_, _)
\* a < b for two strings: the first code unit in which they differ decides,
\* a proper prefix comes first
Precedes(a, b) ==
  IF b = <<>> THEN FALSE
  ELSE IF a = <<>> THEN TRUE
  ELSE IF Head(a) = Head(b) THEN Precedes(Tail(a), Tail(b))
  ELSE CodeUnit(Head(a)) < CodeUnit(Head(b))

RECURSIVE Sort(_)
\* [...allKeys].sort()
Sort(labels) ==
  IF labels = {} THEN <<>>
  ELSE LET least == CHOOSE x \in labels :
                      \A y \in labels \ {x} : Precedes(Chars(x), Chars(y))
       IN  <<least>> \o Sort(labels \ {least})

\* the preferred labels alone: the rest of allKeys is left out
orderedKeysPreferredOnly(ships) ==
  SelectSeq(preferredOrder, LAMBDA l : l \in allKeys(ships))

\* the labels of preferredOrder that occur, in its order, then what is left
\* of allKeys, sorted
orderedKeys(ships) ==
  LET preferred == SelectSeq(preferredOrder, LAMBDA l : l \in allKeys(ships))
  IN  preferred \o Sort(allKeys(ships) \ Range(preferred))

\* The sheet of an entry: the notice, or the header row and one row per
\* shipment, orderedKeys.map((k) => s[k] || "").
SheetOf(e) ==
  LET ships == e.invoiceData.shipments
      keys == orderedKeys(ships)
  IN  IF ships = <<>>
      THEN NoticeSheet(e.amount, e.invoiceData)
      ELSE <<keys>> \o
           [r \in DOMAIN ships |->
              [k \in DOMAIN keys |->
                 IF keys[k] \in DOMAIN ships[r] THEN ships[r][keys[k]] ELSE ""]]

\* XLSX.utils.book_append_sheet of the bundled SheetJS library: it throws
\* for a name the workbook already has, for a name longer than 31
\* characters and for a name with a character Excel forbids
BookAppendSheet(book, ws, name) ==
  IF book.threw THEN book
  ELSE IF \/ name \in Range(book.SheetNames)
          \/ Len(name) > SheetNameMax
          \/ \E k \in DOMAIN name : name[k] \in IllegalInSheetName
       THEN [book EXCEPT !.threw = TRUE]
       ELSE [book EXCEPT !.SheetNames = Append(@, name), !.Sheets = Append(@, ws)]

RECURSIVE AppendSheets(_, _)
\* the loop over Object.entries(allData); an exception ends it
AppendSheets(book, es) ==
  IF es = <<>> THEN book
  ELSE AppendSheets(BookAppendSheet(book, SheetOf(Head(es)),
                                    sanitizeSheetName(<<"$">> \o Head(es).amount)),
                    Tail(es))

generateXlsx(es) == AppendSheets(NewBook, es)

\* Amounts as parseAmounts lets them through (digits, optionally a point
\* and one or two digits), none of them an integer index, so that
\* Object.entries lists them in insertion order.  Two of them are longer
\* than a sheet name and differ in their last digit only.
XlsxAmounts ==
  {<<"7", ".", "5">>, <<"1", ".", "7", "1">>,
   Pad(MaxPad - 1) \o <<"1">>, Pad(MaxPad - 1) \o <<"7">>}

\* the fields of shipment t under the given labels
FieldsUnder(labels, t) ==
  [l \in labels |-> IF l = "Tracking ID number" THEN t ELSE "value"]

\* Records as runExtraction stores them; the shipments of the last two
\* carry labels outside preferredOrder, and not all the same ones.
XlsxRecords ==
  {NotFoundRecord, ErrorRecord, InvoiceRecord("INV001", <<>>),
   InvoiceRecord("INV001", <<ShipmentFields(TrackingNames[1])>>),
   InvoiceRecord("INV001",
     <<FieldsUnder({"Status", "Tracking ID number", "Zone", "Charge: Tax"},
                   TrackingNames[1]),
       FieldsUnder({"Sender Name", "Tracking ID number", "Ref: PO", "Charge: Fuel"},
                   TrackingNames[2])>>),
   InvoiceRecord("INV001", <<FieldsUnder({"Zone", "Ref: PO"}, TrackingNames[1])>>)}

\* result sets of one to MaxAmounts distinct amounts, as entry lists
EntryLists ==
  UNION {{e \in [1..n -> [amount : XlsxAmounts, invoiceData : XlsxRecords]] :
            \A a, b \in 1..n : a # b => e[a].amount # e[b].amount} :
         n \in 1..MaxAmounts}

----------------------------------------------------------------------------
(* The functions applied to inputs of their own *)

InitPure ==
  /\ DriverInit
  /\ PopupInit
  /\ PairIdle
  /\ AgentIdle
  /\ out = <<>>
  /\ wb = NewBook
  /\ fn = "none"
  /\ \/ str \in Strings /\ entries = <<>>
     \/ str = <<>> /\ entries \in EntryLists

\* sanitizeSheetName(`$${amount}`)
CallSanitizeSheetName ==
  /\ fn = "none"
  /\ entries = <<>>
  /\ out' = sanitizeSheetName(<<"$">> \o str)
  /\ fn' = "sanitizeSheetName"
  /\ UNCHANGED <<runVars, cancelled, popupVars, pairVars, agentVars, str, entries, wb>>

\* generateXlsx(allData)
CallGenerateXlsx ==
  /\ fn = "none"
  /\ entries # <<>>
  /\ wb' = generateXlsx(entries)
  /\ fn' = "generateXlsx"
  /\ UNCHANGED <<runVars, cancelled, popupVars, pairVars, agentVars, str, out, entries>>

\* parseAmounts(amountsInput.value)
CallParseAmounts ==
  /\ fn = "none"
  /\ entries = <<>>
  /\ out' = parseAmounts(str)
  /\ fn' = "parseAmounts"
  /\ UNCHANGED <<runVars, cancelled, popupVars, pairVars, agentVars, str, entries, wb>>

\* normalizeAmount(str)
CallNormalizeAmount ==
  /\ fn = "none"
  /\ entries = <<>>
  /\ out' = normalizeAmount(str)
  /\ fn' = "normalizeAmount"
  /\ UNCHANGED <<runVars, cancelled, popupVars, pairVars, agentVars, str, entries, wb>>

NextPure ==
  \/ CallSanitizeSheetName
  \/ CallNormalizeAmount
  \/ CallParseAmounts
  \/ CallGenerateXlsx

SpecPure == InitPure /\ [][NextPure]_vars

----------------------------------------------------------------------------
(* findClickAndScrapeInvoice of the Agent, taken on its own *)

MaxRows == 2
MaxElements == 2

\* the text of the amount cell of an invoice row: "$452.67", "$1,452.67"
\* and "$7.50"
RowTexts ==
  {<<"$", "4", "5", "2", ".", "6", "7">>,
   <<"$", "1", ",", "4", "5", "2", ".", "6", "7">>,
   <<"$", "7", ".", "5", "0">>}

\* The invoice list: its rows in document order, each with one amount cell
\* and the link of its invoice; how many of them are rendered before any
\* scrolling; whether findInvoiceTable finds the table, and whether the page
\* has a cdk-virtual-scroll-viewport.
ListPages ==
  UNION {[rows : [1..n -> RowTexts], shown : 0..n, table : BOOLEAN, viewport : BOOLEAN] :
           n \in 0..MaxRows}

\* s.includes(sub)
Includes(s, sub) ==
  \E k \in 0..(Len(s) - Len(sub)) : SubSeq(s, k + 1, k + Len(sub)) = sub

RECURSIVE GroupThousands(_)
\* the grouping of toLocaleString("en-US"): a comma before every three
\* digits counted from the right
GroupThousands(d) ==
  IF Len(d) <= 3 THEN d
  ELSE GroupThousands(SubSeq(d, 1, Len(d) - 3)) \o <<",">> \o SubSeq(d, Len(d) - 2, Len(d))

\* "$" + Number(target).toLocaleString("en-US", two fraction digits), for a
\* target with two fraction digits and no leading zero
targetFormatted(target) ==
  LET point == CHOOSE k \in DOMAIN target : target[k] = "."
  IN  <<"$">> \o GroupThousands(SubSeq(target, 1, point - 1))
              \o SubSeq(target, point, Len(target))

\* scrapeInvoiceRows: one entry per rendered row, with the normalized text
\* of its amount cell
scrapeInvoiceRows(rows) ==
  [k \in DOMAIN rows |-> [row |-> k, amount |-> normalizeAmount(rows[k])]]

\* the least index of S, 0 if there is none
First(S) == IF S = {} THEN 0 ELSE CHOOSE k \in S : \A l \in S : k <= l

\* for (const inv of invoices) if (inv.amount === target) ...: the first
\* entry of the amount
RowScan(rows, target) ==
  LET invoices == scrapeInvoiceRows(rows)
  IN  First({k \in DOMAIN invoices : invoices[k].amount = target})

\* the full-page text search: the first text node that includes the target or
\* its formatted form, and the row around it
TextWalker(rows, target) ==
  First({k \in DOMAIN rows :
           Includes(rows[k], target) \/ Includes(rows[k], targetFormatted(target))})

\* the rows in the document
Rendered(page) == SubSeq(page.rows, 1, page.shown)

\* An element of the invoice-detail page: a cell labeled as tracking number,
\* a button or link, or plain text.  A clickable is pure when its text is
\* the id and nothing else, and it can lie inside a table.
Elements ==
  [kind : {"cell"}, id : {TrackingNames[1], TrackingNames[2], "N/A"},
   pure : {TRUE}, inTable : {TRUE}]
    \cup [kind : {"clickable"}, id : {TrackingNames[1], TrackingNames[2]},
          pure : BOOLEAN, inTable : BOOLEAN]
    \cup [kind : {"text"}, id : {TrackingNames[1], TrackingNames[2]},
          pure : {FALSE}, inTable : {FALSE}]

\* the digit tests of the strategies, /\d{10,}/ and /^\d{10,22}$/
IdShaped(text) == text \in Range(TrackingNames)

IdsOf(els) == Dedupe(<<>>, [k \in DOMAIN els |-> els[k].id])

\* Strategy 1: the cells labeled trackingNumber
LabeledCells(dom) ==
  IdsOf(SelectSeq(dom, LAMBDA e : e.kind = "cell" /\ IdShaped(e.id)))

\* Strategy 2: buttons and links of digits only, inside a table
TableClickables(dom) ==
  IdsOf(SelectSeq(dom, LAMBDA e : e.kind = "clickable" /\ e.pure /\ e.inTable))

\* Strategy 3: any button or link of digits only
AnyClickables(dom) ==
  IdsOf(SelectSeq(dom, LAMBDA e : e.kind = "clickable" /\ e.pure))

\* Strategy 4: the digit runs of the page text that some button or link
\* includes
ClickableText(dom) ==
  IdsOf(SelectSeq(dom, LAMBDA e :
          /\ IdShaped(e.id)
          /\ \E k \in DOMAIN dom : dom[k].kind = "clickable" /\ dom[k].id = e.id))

scrapeTrackingIdsAll(dom) ==
  LabeledCells(dom) \o TableClickables(dom) \o AnyClickables(dom) \o ClickableText(dom)

\* the four strategies, each run only if (trackingIds.length === 0)
scrapeTrackingIds(dom) ==
  IF LabeledCells(dom) # <<>> THEN LabeledCells(dom)
  ELSE IF TableClickables(dom) # <<>> THEN TableClickables(dom)
  ELSE IF AnyClickables(dom) # <<>> THEN AnyClickables(dom)
  ELSE ClickableText(dom)

UrlWaitTimeoutFails(navigated) == IF navigated THEN "elementWait" ELSE "returned"

\* where the function goes on after waitForUrlChange("invoice-detail",
\* 15000) has settled: the catch only logs
AfterUrlWait(navigated) == "elementWait"

\* the row is matched: simulateClick(matchedInvoice.linkEl), then the wait
\* for the URL
ClickInvoice(f, m, strategy) ==
  [f EXCEPT !.matched = m, !.strategy = strategy, !.at = "urlWait"]

\* the full-page text search on the rows in the document: click, or the
\* not-found answer
Fallback(f) ==
  LET m == TextWalker(Rendered(f.page), f.target)
  IN  IF m > 0 THEN ClickInvoice(f, m, "text-walker")
      ELSE [f EXCEPT !.at = "returned", !.reply = NotMatchedReply]

\* the listener calls findClickAndScrapeInvoice(msg.amount)
CallFind ==
  /\ find.at = "idle"
  \* the amounts the Driver asks for: "452.67" and "1452.67"
  /\ \E t \in {PlainAmount, <<"1", "4", "5", "2", ".", "6", "7">>}, p \in ListPages :
       find' = [find EXCEPT !.at = "tableWait", !.target = normalizeAmount(t),
                            !.page = p]
  /\ UNCHANGED <<runVars, cancelled, popupVars, pureVars, pairVars, handlers, waits>>

\* the waits for the table are over, whichever way; the rows are scanned
TableWait ==
  /\ find.at = "tableWait"
  /\ find' =
       IF find.page.table
       THEN LET m == RowScan(Rendered(find.page), find.target)
            IN  IF m > 0 THEN ClickInvoice(find, m, "row-scan")
                ELSE IF find.page.viewport THEN [find EXCEPT !.at = "scroll"]
                ELSE Fallback(find)
       ELSE Fallback(find)
  /\ UNCHANGED <<runVars, cancelled, popupVars, pureVars, pairVars, handlers, waits>>

\* one round of the virtual scroll: a further row is rendered and the rows
\* are scanned again; after the last round the text search follows
Scroll ==
  /\ find.at = "scroll"
  /\ find' =
       IF find.page.shown < Len(find.page.rows)
       THEN LET f == [find EXCEPT !.page.shown = @ + 1]
                m == RowScan(Rendered(f.page), f.target)
            IN  IF m > 0 THEN ClickInvoice(f, m, "scroll") ELSE f
       ELSE Fallback(find)
  /\ UNCHANGED <<runVars, cancelled, popupVars, pureVars, pairVars, handlers, waits>>

\* waitForUrlChange("invoice-detail", 15000) settles: resolved or timed out
UrlWait ==
  /\ find.at = "urlWait"
  /\ \E n \in BOOLEAN :
       find' = [find EXCEPT !.navigated = n, !.at = AfterUrlWait(n)]
  /\ UNCHANGED <<runVars, cancelled, popupVars, pureVars, pairVars, handlers, waits>>

\* the waits for the tracking elements are over, whichever way; the ids
\* are read from the page as it stands and the answer is returned
ElementWait ==
  /\ find.at = "elementWait"
  \* the invoice-detail page as it stands when the waits are over
  /\ \E d \in UNION {[1..n -> Elements] : n \in 0..MaxElements} :
       find' = [find EXCEPT !.dom = d, !.at = "returned",
                            !.reply = [SuccessReply EXCEPT
                                         !.found = TRUE,
                                         !.invoiceNumber = "INV001",
                                         !.trackingIds = scrapeTrackingIds(d)]]
  /\ UNCHANGED <<runVars, cancelled, popupVars, pureVars, pairVars, handlers, waits>>

NextFind ==
  \/ CallFind
  \/ TableWait
  \/ Scroll
  \/ UrlWait
  \/ ElementWait

SpecFind == Init /\ [][NextFind]_vars

----------------------------------------------------------------------------
(* The time the two long handlers of the Agent spend waiting, in            *)
(* milliseconds, against the timers the Driver sets for them                *)

\* the collapsed accordions a shipment page may hold
MaxAccordions == 9

\* sendToTab(tabId, { action: "FIND_CLICK_AND_SCRAPE", amount }, 90000)
FindTimeout == 90000

\* sendToTab(tabId, { action: "SCRAPE_SHIPMENT_DETAILS" }, 30000)
ScrapeTimeout == 30000

\* findClickAndScrapeInvoice: waitForAny([...], 25000) for the table
TableWaitMs == 25000

\* the interval that waits for a "$" in the page text gives up after 15000
TextWaitMs == 15000

\* the pause before the rows are read
RenderPauseMs == 2500

\* for (let i = 0; i < 30; i++): the scroll steps of the virtual viewport
ScrollSteps == 30

\* the pause after each scroll step
ScrollPauseMs == 800

\* waitForUrlChange("invoice-detail", 15000)
UrlWaitMs == 15000

\* the pause for the new view to render
ViewPauseMs == 3000

\* waitForDataLabel("trackingNumber", 20000)
LabelWaitMs == 20000

\* waitForAny(["app-shipment-table", "app-invoice-detail"], 10000)
ComponentWaitMs == 10000

\* the pause that ends the alternatives
AlternativesPauseMs == 2000

\* scrapeShipmentDetails: waitForAny([...], 20000) for the detail container
ContainerWaitMs == 20000

\* the pause before the fields are read
DetailPauseMs == 2500

\* the pause after the click on a collapsed accordion
AccordionPauseMs == 800

\* the pause after the accordion loop
SectionsPauseMs == 1000

\* The listener calls findClickAndScrapeInvoice(msg.amount) or
\* scrapeShipmentDetails().
CallHandler ==
  /\ waits.at \in {"idle", "returned"}
  /\ \/ waits' = [NoWaits EXCEPT !.handler = "locate", !.at = "tableWait"]
     \/ waits' = [NoWaits EXCEPT !.handler = "scrape", !.at = "containerWait"]
  /\ UNCHANGED <<runVars, cancelled, popupVars, pureVars, pairVars, handlers, find>>

\* One await of findClickAndScrapeInvoice comes to its end.  A wait with a
\* limit takes no time when what it waits for is there already and up to
\* the whole limit when it appears last or not at all.
LocateWait ==
  LET Waited(ms, next) == waits' = [waits EXCEPT !.elapsed = @ + ms, !.at = next]
  IN
  /\ waits.handler = "locate"
  /\ \* await waitForAny([...], 25000): a table element appears, or the wait
     \* rejects at its limit and the text wait starts
     \/ /\ waits.at = "tableWait"
        /\ \/ \E ms \in {0, TableWaitMs} : Waited(ms, "renderPause")
           \/ Waited(TableWaitMs, "textWait")
     \* the wait for a "$": it resolves or it rejects at its limit, and the
     \* function goes on either way
     \/ /\ waits.at = "textWait"
        /\ \E ms \in {0, TextWaitMs} : Waited(ms, "renderPause")
     \* the 2500 ms pause, then the rows are read: the amount is matched (by
     \* a row or by the text fallback) and the row is clicked, or there is a
     \* table with a virtual-scroll viewport and no match yet, or nothing is
     \* found and the function returns
     \/ /\ waits.at = "renderPause"
        /\ \E next \in {"urlWait", "scroll", "returned"} : Waited(RenderPauseMs, next)
     \* one step of for (let i = 0; i < 30; i++): scroll, pause 800 ms, read
     \* the rows again; the loop ends with a match or after its last step,
     \* when the text fallback decides
     \/ /\ waits.at = "scroll"
        /\ \E next \in {"urlWait", "scroll", "returned"} :
             /\ next = "scroll" => waits.rounds + 1 < ScrollSteps
             /\ next = "returned" => waits.rounds + 1 = ScrollSteps
             /\ waits' = [waits EXCEPT !.elapsed = @ + ScrollPauseMs,
                                       !.rounds = @ + 1, !.at = next]
     \* await waitForUrlChange("invoice-detail", 15000) in try/catch
     \/ /\ waits.at = "urlWait"
        /\ \E ms \in {0, UrlWaitMs} : Waited(ms, "viewPause")
     \* the 3000 ms pause
     \/ /\ waits.at = "viewPause"
        /\ Waited(ViewPauseMs, "labelWait")
     \* await waitForDataLabel("trackingNumber", 20000): the cells appear and
     \* the ids are read, or the wait rejects at its limit
     \/ /\ waits.at = "labelWait"
        /\ \/ \E ms \in {0, LabelWaitMs} : Waited(ms, "returned")
           \/ Waited(LabelWaitMs, "componentWait")
     \* await waitForAny(["app-shipment-table", "app-invoice-detail"], 10000)
     \* in try/catch
     \/ /\ waits.at = "componentWait"
        /\ \E ms \in {0, ComponentWaitMs} : Waited(ms, "alternativesPause")
     \* the 2000 ms pause, after which the ids are read and the function
     \* returns
     \/ /\ waits.at = "alternativesPause"
        /\ Waited(AlternativesPauseMs, "returned")
  /\ UNCHANGED <<runVars, cancelled, popupVars, pureVars, pairVars, handlers, find>>

\* one await of scrapeShipmentDetails comes to its end
ScrapeWait ==
  /\ waits.handler = "scrape"
  /\ \* await waitForAny([...], 20000) in try/catch
     \/ /\ waits.at = "containerWait"
        /\ \E ms \in {0, ContainerWaitMs} :
             waits' = [waits EXCEPT !.elapsed = @ + ms, !.at = "detailPause"]
     \* the 2500 ms pause, after which the fields are read and the accordion
     \* buttons of the page are collected
     \/ /\ waits.at = "detailPause"
        /\ \E n \in 0 .. MaxAccordions :
             waits' = [waits EXCEPT !.elapsed = @ + DetailPauseMs, !.collapsed = n,
                                    !.at = "accordions"]
     \* a collapsed accordion is clicked and the loop pauses 800 ms
     \/ /\ waits.at = "accordions"
        /\ waits.rounds < waits.collapsed
        /\ waits' = [waits EXCEPT !.elapsed = @ + AccordionPauseMs, !.rounds = @ + 1]
     \* the 1000 ms pause after the loop, after which the sections are read
     \* and the function returns
     \/ /\ waits.at = "accordions"
        /\ waits.rounds = waits.collapsed
        /\ waits' = [waits EXCEPT !.elapsed = @ + SectionsPauseMs, !.at = "returned"]
  /\ UNCHANGED <<runVars, cancelled, popupVars, pureVars, pairVars, handlers, find>>

NextWaits ==
  \/ CallHandler
  \/ LocateWait
  \/ ScrapeWait

SpecWaits == Init /\ [][NextWaits]_vars

----------------------------------------------------------------------------
(* Notions used by the properties *)

\* the steps that belong to the processing of an amount
AmountPcs ==
  {"tabsUpdate", "tabLoad", "ping", "executeScript", "throttleList",
   "findClickAndScrape", "navigateBack", "waitInvoiceDetails", "throttleBack",
   "clickTrackingId", "waitShipmentPage", "navPoll", "throttleShipment",
   "scrapeShipmentDetails", "throttleNext"}

CancelledDone == [type |-> "DONE", error |-> "Cancelled by user"]

\* the DONE payloads of the outer catch of runExtraction
IsFatal(d) ==
  /\ d.type = "DONE"
  /\ "error" \in DOMAIN d
  /\ d.error \in {"tabs.update failed", "Tab load timeout", "executeScript failed"}

\* the data of the attempts that ended in a push, in the order of the attempts
PushedData(atts) ==
  LET P[k \in 0..Len(atts)] ==
        IF k = 0 THEN <<>>
        ELSE IF atts[k].outcome = "pushed" THEN Append(P[k - 1], atts[k].data)
        ELSE P[k - 1]
  IN P[Len(atts)]

\* the invoice of the last locate call was found and its record is written
Finalised == result.found /\ result.amount \in DOMAIN allData

\* the characters of an amount of the model
CharsOf(a) ==
  CASE a = "452.67" -> PlainAmount
    [] a = "1431.43" -> <<"1", "4", "3", "1", ".", "4", "3">>
    [] a = "10.00" -> <<"1", "0", ".", "0", "0">>
    [] a = "7.50" -> <<"7", ".", "5", "0">>
    [] a = "99.99" -> <<"9", "9", ".", "9", "9">>

\* Object.entries(d) for a result set filled in the order of the amounts as:
\* no amount of the model is an integer index, so the order is that of
\* insertion
Entries(d, as) ==
  [k \in DOMAIN as |-> [amount |-> CharsOf(as[k]), invoiceData |-> d[as[k]]]]

----------------------------------------------------------------------------
(* C1: whenever the result set is handed to the export, it holds one record *)
(* for each requested amount and none under another key, whatever errors    *)
(* the run met; at every moment the keys are the amounts processed so far.  *)
C1_OneRecordPerAmount ==
  /\ i \in 0..Len(amounts)
  /\ DOMAIN allData = {amounts[k] : k \in 1..i}
  /\ \A a \in DOMAIN allData :
       DOMAIN allData[a] = {"invoiceNumber", "shipments"}
  /\ xlsx # "none" => DOMAIN allData = Range(amounts)

\* an exported result holding an ERROR record and a found invoice that lost
\* a shipment
C1_Witness ==
  /\ xlsx = "built"
  /\ Len(amounts) = 2
  /\ allData[amounts[1]].invoiceNumber = "ERROR"
  /\ result.found
  /\ result.amount = amounts[2]
  /\ Len(allData[amounts[2]].shipments) < Len(result.trackingIds)

(* C2: no failure of a per-amount or per-shipment step ends the run through *)
(* the outer catch: the only error outcomes are cancellation and export or  *)
(* download failures.                                                       *)
C2_StepFailuresNeverFatal ==
  \A k \in DOMAIN doneLog : ~IsFatal(doneLog[k])

(* C3: once cancel was requested during the processing of the amounts, no   *)
(* further amount begins, the run does not go on to the export, and if it   *)
(* ends it reports cancellation.                                            *)
C3_CancelReportsCancellation ==
  [][(cancelled /\ pc \in AmountPcs) =>
       /\ (i' # i => pc' # "tabsUpdate")
       /\ xlsx' = "none"
       /\ (pc' = "done" => doneLog' = <<CancelledDone>>)]_vars

(* C4: a checkpoint that finds the flag set stops the run: no record is    *)
(* written for an invoice whose shipment loop was left before all its       *)
(* tracking ids were attempted, and a run that reports the cancelled        *)
(* outcome has triggered no export and no download.                         *)
C4_CheckpointStopsRun ==
  /\ Finalised => Len(attempts) = Len(result.trackingIds)
  /\ doneLog = <<CancelledDone>> => xlsx = "none" /\ download = "none"

(* C5: a not-found answer to the locate call records NOT FOUND with no      *)
(* shipments for that amount, ends the iteration without reaching the outer *)
(* catch, and the next amount is begun.                                     *)
C5_NotFoundRecorded ==
  [][(pc = "findClickAndScrape" /\ lastCall'.settled = "resolved"
        /\ ~result'.success) =>
       /\ allData' = SetRecord(allData, amounts[i + 1],
                               [invoiceNumber |-> "NOT FOUND", shipments |-> <<>>])
       /\ i' = i + 1
       /\ (i + 1 < Len(amounts) /\ ~cancelled => pc' = "tabsUpdate")
       /\ \A k \in DOMAIN doneLog' : ~IsFatal(doneLog'[k])]_vars

\* the first amount was not found and the second one is being navigated to
C5_Witness ==
  /\ pc = "tabsUpdate"
  /\ i = 1
  /\ lastCall.action = "FIND_CLICK_AND_SCRAPE"
  /\ lastCall.settled = "resolved"
  /\ allData[amounts[1]].invoiceNumber = "NOT FOUND"
  /\ allData[amounts[1]].shipments = <<>>

(* C6: a timeout or transport failure of the locate call records ERROR with *)
(* no shipments for that amount, and the next amount is begun.              *)
C6_LocateFailureRecorded ==
  [][(pc = "findClickAndScrape" /\ lastCall'.settled = "rejected") =>
       /\ allData' = SetRecord(allData, amounts[i + 1],
                               [invoiceNumber |-> "ERROR", shipments |-> <<>>])
       /\ i' = i + 1
       /\ (i + 1 < Len(amounts) /\ ~cancelled => pc' = "tabsUpdate")
       /\ \A k \in DOMAIN doneLog' : ~IsFatal(doneLog'[k])]_vars

\* the locate call of the first amount timed out and the second amount is
\* being navigated to
C6_Witness ==
  /\ pc = "tabsUpdate"
  /\ i = 1
  /\ lastCall = [action |-> "FIND_CLICK_AND_SCRAPE", settled |-> "rejected",
                 message |-> "sendToTab timeout"]
  /\ allData[amounts[1]].invoiceNumber = "ERROR"
  /\ allData[amounts[1]].shipments = <<>>

(* C7: the shipment list is the data of the successful scrapes in the order *)
(* of the tracking ids; when all N ids of a finalised invoice were scraped  *)
(* successfully the list has length N and its k-th entry is the data        *)
(* scraped for the k-th discovered id.                                      *)
C7_AllScrapedInDiscoveryOrder ==
  /\ shipments = PushedData(attempts)
  /\ (Finalised /\ Len(attempts) = Len(result.trackingIds)
        /\ \A k \in DOMAIN attempts : attempts[k].outcome = "pushed") =>
       /\ Len(allData[result.amount].shipments) = Len(result.trackingIds)
       /\ \A k \in DOMAIN attempts :
            /\ attempts[k].tid = result.trackingIds[k]
            /\ allData[result.amount].shipments[k] = attempts[k].data

\* an invoice with two tracking ids, both scraped with their fields
C7_Witness ==
  /\ Finalised
  /\ Len(result.trackingIds) = 2
  /\ Len(attempts) = 2
  /\ \A k \in 1..2 : /\ attempts[k].outcome = "pushed"
                     /\ attempts[k].data = ShipmentFields(result.trackingIds[k])
  /\ Len(allData[result.amount].shipments) = 2

(* C8: a failed click only skips its own tracking id: the step goes on to   *)
(* the next id without touching the shipment list; the ids are attempted in *)
(* discovery order with none left out, and a record finalised without       *)
(* cancellation has had every id attempted and holds the successful ones in *)
(* that order.                                                              *)
C8_Inv ==
  /\ Len(attempts) <= Len(result.trackingIds)
  /\ \A k \in DOMAIN attempts : attempts[k].tid = result.trackingIds[k]
  /\ (Finalised /\ ~cancelled) =>
       /\ Len(attempts) = Len(result.trackingIds)
       /\ allData[result.amount].shipments = PushedData(attempts)

C8_Step ==
  (pc = "clickTrackingId" /\ Len(attempts') >= Len(attempts)
     /\ attempts'[Len(attempts)].outcome = "clickFailed") =>
    /\ shipments' = shipments
    /\ j' = j + 1
    /\ (j + 1 < Len(result.trackingIds) /\ ~cancelled => pc' = "navigateBack")
    /\ \A k \in DOMAIN doneLog' : ~IsFatal(doneLog'[k])

C8_ClickFailureSkipsOnlyItsId == []C8_Inv /\ [][C8_Step]_vars

\* the click for the first id failed, the second id was still opened and
\* scraped, and the list holds only the second shipment
C8_Witness ==
  /\ Len(attempts) = 2
  /\ attempts[1].outcome = "clickFailed"
  /\ attempts[2].outcome = "pushed"
  /\ Finalised
  /\ allData[result.amount].shipments = <<ShipmentFields(result.trackingIds[2])>>

(* C9: a shipment whose view-ready wait timed out, or whose scrape answers  *)
(* with no fields, adds no ShipmentRecord to the list.                      *)
C9_FailedShipmentAddsNothing ==
  [][(pc = "scrapeShipmentDetails"
        /\ (viewWait = "failed" \/ attempts'[Len(attempts)].data = EmptyData)) =>
       shipments' = shipments]_vars

(* C10: every rejected Agent call is caught and logged by the step that     *)
(* awaited it and does not end the run through the outer catch.             *)
C10_RejectedCallLoggedNotFatal ==
  [][lastCall'.settled = "rejected" =>
       /\ \E k \in DOMAIN stepLogs' : stepLogs'[k].level = "error"
       /\ \A k \in DOMAIN doneLog' : ~IsFatal(doneLog'[k])]_vars

(* C11: within a run the Driver has at most one navigation or Agent call   *)
(* outstanding, and it is the one the run is suspended on: the next call   *)
(* is issued only once the previous one has settled.                       *)
C11_OneCallAtATime ==
  /\ Cardinality(inFlight) <= 1
  /\ inFlight = Issue({}, PageCall(pc))

\* the back navigation has settled and only the wait that follows it is
\* outstanding
C11_Witness ==
  /\ pc = "waitInvoiceDetails"
  /\ lastCall.action = "NAVIGATE_BACK"
  /\ inFlight = {"WAIT_FOR_INVOICE_DETAILS"}

(* C13: the Page Agent executes one request at a time: no handler starts   *)
(* while the handler of an earlier request, one whose Driver-side timer    *)
(* has expired included, is still executing.                               *)
C13_AgentOneAtATime == Cardinality(agentBusy) <= 1

(* C12: the tab is driven by one run at a time: whatever start and cancel  *)
(* commands are given, no second run navigates the tab or sends Agent      *)
(* requests while an earlier run has not reached its terminal state.       *)
C12_OneRunDrivesTab == Cardinality(Live) <= 1

(* C14: once every amount is processed, export is triggered once, with    *)
(* the full result set, and is followed by one download of its bytes; if   *)
(* export fails no download is requested; a failure of export or of the    *)
(* download ends the run with that error reported, and nothing is retried. *)
C14_Inv ==
  /\ xlsx # "none" => i = Len(amounts) /\ DOMAIN allData = Range(amounts)
  /\ download # "none" => xlsx = "built"
  /\ xlsx = "failed" =>
       /\ download = "none"
       /\ pc = "done"
       /\ doneLog = <<DoneError("XLSX generation failed")>>
  /\ download = "failed" =>
       /\ pc = "done"
       /\ doneLog = <<DoneError("download lastError")>>

C14_Step ==
  /\ (i' # i /\ i' = Len(amounts')) =>
       /\ xlsx = "none" /\ xlsx' \in {"built", "failed"}
       /\ xlsx' = "built" => download' = "requested"
  /\ xlsx # "none" => xlsx' = xlsx
  /\ download \in {"ok", "failed"} => download' = download
  /\ download = "requested" => download' \in {"requested", "ok", "failed"}
  /\ pc = "done" => pc' = "done" /\ doneLog' = doneLog

\* C14 as a whole: what holds in every state and what every step keeps
C14_ExportOnceThenOneDownload == []C14_Inv /\ [][C14_Step]_vars

\* two amounts were processed without a cancel, generateXlsx threw, and the
\* run is over with that error and no download
C14_Witness ==
  /\ ~cancelled
  /\ Len(amounts) = 2
  /\ xlsx = "failed"
  /\ download = "none"
  /\ doneLog = <<DoneError("XLSX generation failed")>>

(* C15: the workbook has exactly one sheet per amount of the result set,   *)
(* sentinel records included; a record without shipments gets the         *)
(* three-row notice; and export does not fail because two amounts map to   *)
(* the same sheet name.                                                    *)
C15_OneSheetPerAmount ==
  fn = "generateXlsx" =>
    /\ ~wb.threw
    /\ Len(wb.SheetNames) = Len(entries)
    /\ \A k \in DOMAIN entries :
         entries[k].invoiceData.shipments = <<>> =>
           wb.Sheets[k] = NoticeSheet(entries[k].amount, entries[k].invoiceData)

(* C16: the sheet name derived from "$" followed by the amount contains    *)
(* none of the characters [ ] : * ? / \ and has at most 31 characters.     *)
C16_SheetNameLegal ==
  fn = "sanitizeSheetName" =>
    /\ Len(out) <= 31
    /\ \A k \in DOMAIN out : out[k] \notin {"[", "]", ":", "*", "?", "/", "\\"}

\* a name that had to be cut, with a replaced character at the cut
C16_Witness ==
  /\ fn = "sanitizeSheetName"
  /\ Len(<<"$">> \o str) > 31
  /\ str[30] \in IllegalInSheetName
  /\ out[31] = "_"

(* C17: normalizeAmount is idempotent; its result holds only digits and   *)
(* decimal points; "$1,431.43" normalizes to "1431.43" and "452.67" to     *)
(* itself.                                                                 *)
C17_NormalizeAmount ==
  fn = "normalizeAmount" =>
    /\ normalizeAmount(out) = out
    /\ \A k \in DOMAIN out :
         out[k] \in {"0", "1", "2", "3", "4", "5", "6", "7", "8", "9", "."}
    /\ str = FormattedAmount => out = <<"1", "4", "3", "1", ".", "4", "3">>
    /\ str = PlainAmount => out = str

\* "$1,431.43" has been normalized
C17_Witness ==
  /\ fn = "normalizeAmount"
  /\ str = FormattedAmount
  /\ out = <<"1", "4", "3", "1", ".", "4", "3">>

(* C18: for the amounts ["452.67", "1431.43"], with the Agent reporting    *)
(* INV001 and the ids ["111111111111", "222222222222"] for 452.67, each    *)
(* scrape returning five fields, and not-found for 1431.43, the run ends   *)
(* with two records: the first with the two shipments of five fields in    *)
(* that order, the second "NOT FOUND" without shipments; the workbook has  *)
(* exactly two sheets.                                                     *)
C18_Ids == <<"111111111111", "222222222222">>

C18_Record ==
  InvoiceRecord("INV001", <<ShipmentFields(C18_Ids[1]), ShipmentFields(C18_Ids[2])>>)

\* the first amount has just been worked through as the scenario says
C18_FirstScraped ==
  /\ amounts = <<"452.67", "1431.43">>
  /\ result = FoundReply("452.67", C18_Ids)
  /\ Finalised
  /\ Len(attempts) = 2
  /\ \A k \in 1..2 :
       /\ attempts[k].outcome = "pushed"
       /\ attempts[k].data = ShipmentFields(C18_Ids[k])
       /\ Cardinality(DOMAIN attempts[k].data) = 5

C18_FirstRecorded ==
  /\ amounts = <<"452.67", "1431.43">>
  /\ "452.67" \in DOMAIN allData
  /\ allData["452.67"] = C18_Record

\* the run is over and the last locate call was answered with not-found
C18_SecondNotFound ==
  /\ pc = "done"
  /\ i = 2
  /\ result = NotMatchedReply

C18_Outcome ==
  /\ allData = ("452.67" :> C18_Record @@ "1431.43" :> NotFoundRecord)
  /\ \A k \in 1..2 : Cardinality(DOMAIN allData["452.67"].shipments[k]) = 5
  /\ xlsx = "built" =>
       LET book == generateXlsx(Entries(allData, amounts))
       IN  ~book.threw /\ Len(book.SheetNames) = 2

\* C18 as a whole: the first record is written as scraped, stays as written,
\* and the terminal state holds both records and a workbook of two sheets
C18_EndToEnd ==
  /\ [](C18_FirstScraped => C18_FirstRecorded)
  /\ [][C18_FirstRecorded => C18_FirstRecorded']_vars
  /\ []((C18_FirstRecorded /\ C18_SecondNotFound) => C18_Outcome)

\* the scenario has run to the downloaded workbook
C18_Witness ==
  /\ C18_FirstRecorded
  /\ C18_SecondNotFound
  /\ ~cancelled
  /\ xlsx = "built"
  /\ download = "ok"
  /\ Len(generateXlsx(Entries(allData, amounts)).SheetNames) = 2

(* C19: when the locate-and-open call succeeds with zero tracking ids, the *)
(* amount is finalized with the found invoice number and an empty shipment *)
(* list, no shipment request is sent for it, and the record carries no     *)
(* sentinel.                                                               *)
C19_ZeroIdsFinalised ==
  (result.found /\ result.trackingIds = <<>>) =>
    /\ result.amount \in DOMAIN allData
    /\ allData[result.amount] =
         [invoiceNumber |-> result.invoiceNumber, shipments |-> <<>>]
    /\ allData[result.amount].invoiceNumber \notin {"NOT FOUND", "ERROR"}
    /\ attempts = NoAttempt
    /\ RequestAt(pc) \in {"none", "PING", "FIND_CLICK_AND_SCRAPE"}

\* an invoice without tracking ids was found and the run went on to the
\* downloaded workbook
C19_Witness ==
  /\ result.found
  /\ result.trackingIds = <<>>
  /\ allData[result.amount].shipments = <<>>
  /\ download = "ok"

(* C20: once a run has reached its terminal state (success, cancellation   *)
(* or fatal error) its ExtractionResult is never mutated again: no record  *)
(* is added, replaced or extended after the terminal event.                *)
C20_ResultFrozenAfterDone ==
  [][doneLog # <<>> => (allData' = allData /\ shipments' = shipments)]_vars

\* a run cancelled after its first amount: the record written before the
\* terminal event is all the result set holds
C20_Witness ==
  /\ doneLog = <<CancelledDone>>
  /\ pc = "done"
  /\ Len(amounts) = 2
  /\ DOMAIN allData = {amounts[1]}

(* C21: the Agent answers a locate-and-open request with success = false   *)
(* only when no invoice matched the amount; a matched invoice without      *)
(* tracking ids is answered with success and an empty list; an execution   *)
(* error inside the Agent does not reach the Driver as a not-found and is  *)
(* never recorded as "NOT FOUND".                                          *)
C21_NotFoundMeansNotMatched ==
  (lastCall.action = "FIND_CLICK_AND_SCRAPE" /\ result.answered) =>
    /\ ~result.success => result.error = "Amount not found"
    /\ result.error = "err.message" =>
         allData[amounts[i]].invoiceNumber # "NOT FOUND"
    /\ result.found => result.success

(* C22: the list of amounts handed to the Driver holds no amount twice,    *)
(* and every amount in it has the form digits.digits; parseAmounts emits   *)
(* no duplicate and no string of another shape.                            *)
C22_AmountsUniqueAndDecimal ==
  fn = "parseAmounts" =>
    /\ \A a, b \in DOMAIN out : a # b => out[a] # out[b]
    /\ \A a \in DOMAIN out :
         \E k \in DOMAIN out[a] :
           /\ out[a][k] = "."
           /\ 1 < k /\ k < Len(out[a])
           /\ \A m \in DOMAIN out[a] : m # k => IsDigit(out[a][m])

C24_Inv ==
  result.found =>
    /\ Len(attempts) <= Len(result.trackingIds)
    /\ \A k \in DOMAIN attempts : attempts[k].tid = result.trackingIds[k]

C24_Step ==
  /\ i' >= i
  /\ (pc' = "tabsUpdate" /\ pc # "tabsUpdate") => (pc = "idle" \/ i' = i + 1)
  /\ pc' = "tabLoad" => pc \in {"tabsUpdate", "tabLoad"}
  /\ (pc' = "throttleList" /\ pc # pc') =>
       (ctx = "navigateTab" /\ pc \in {"ping", "executeScript"})
  /\ (pc' = "findClickAndScrape" /\ pc # pc') => (pc = "throttleList" /\ i' = i)
  /\ (pc = "findClickAndScrape" /\ pc' # pc) =>
       (i' = i + 1 \/ (pc' = "clickTrackingId" /\ j' = 0))
  /\ (pc' = "throttleShipment" /\ pc # pc') =>
       (j' = j /\ pc \in {"waitShipmentPage", "ping", "executeScript"})
  /\ (pc' = "scrapeShipmentDetails" /\ pc # pc') => (pc = "throttleShipment" /\ j' = j)
  /\ (pc \in {"scrapeShipmentDetails", "throttleNext"} /\ pc' # pc) =>
       (pc' = "throttleNext" \/ j' = j + 1)
  /\ (i' = i /\ pc \notin {"idle", "findClickAndScrape"}) => j' >= j

C25_BackWaitClick ==
  [][/\ (pc = "navigateBack" /\ pc' # pc) =>
          (j > 0 /\ j' = j /\ pc' = "waitInvoiceDetails")
     /\ (pc = "waitInvoiceDetails" /\ pc' # pc) =>
          (j' = j /\ pc' \in {"throttleBack", "ping"})
     /\ (pc \in {"ping", "executeScript"} /\ ctx = "backNav" /\ pc' # pc) =>
          (j' = j /\ pc' \in {"executeScript", "throttleBack"})
     /\ (pc = "throttleBack" /\ pc' # pc) =>
          /\ pc' = "clickTrackingId"
          /\ attempts'[Len(attempts')].tid = result.trackingIds[j + 1]
     /\ (pc' = "clickTrackingId" /\ pc # pc' /\ j' > 0) => pc = "throttleBack"]_vars

----------------------------------------------------------------------------
\* C26: whenever a click-tracking-entry request is sent, the tab shows the
\* invoice-detail view of the invoice being processed, whatever the earlier
\* shipments of that invoice came to (a failed click or a failed scrape
\* included).
C26_ClickOnInvoiceView == pc = "clickTrackingId" => view = "invoice"

----------------------------------------------------------------------------
\* C27: a randomized delay lies between every navigation-inducing action and
\* the Driver's next Agent request: between the list navigation and the
\* locate call, between the opening of the invoice and the first click on a
\* tracking entry, between the click and the scrape, and after the scrape.
C27_ThrottleAfterNavigation ==
  [][/\ (pc' = "findClickAndScrape" /\ pc # pc') => pc = "throttleList"
     /\ (pc = "findClickAndScrape" /\ pc # pc' /\ result'.success) =>
          RequestAt(pc') = "none"
     /\ (pc' = "scrapeShipmentDetails" /\ pc # pc') => pc = "throttleShipment"
     /\ (pc = "scrapeShipmentDetails" /\ pc # pc') => RequestAt(pc') = "none"]_vars

----------------------------------------------------------------------------
\* C28: when an Agent call fails because the channel itself failed (the Agent
\* is not reachable), the Driver goes on to reinstall the Agent, by
\* ensureContentScript or by waitForNavAfterClick which ends in it, and stays
\* with the same amount and the same tracking id; the ping of
\* ensureContentScript is the reinstall's own probe and is left out.
C28_ChannelFailureReinstalls ==
  [][(/\ lastCall'.settled = "rejected"
      /\ lastCall'.message = "lastError"
      /\ lastCall'.action # "PING") =>
        (pc' \in {"ping", "navPoll"} /\ i' = i /\ j' = j)]_vars

----------------------------------------------------------------------------
\* C29: ensureContentScript installs the Agent script exactly when its ping
\* got no successful answer within the timeout: an answered ping is followed
\* by no installation, a rejected or timed-out ping by one call of
\* chrome.scripting.executeScript, and nothing else leads to that call.
C29_InstallIffPingUnanswered ==
  [][/\ (pc = "ping" /\ pc' # pc) =>
          /\ lastCall'.action = "PING"
          /\ lastCall'.settled = "resolved" => pc' = AfterEnsure(ctx)
          /\ lastCall'.settled = "rejected" => pc' = "executeScript"
     /\ (pc' = "executeScript" /\ pc' # pc) =>
          (pc = "ping" /\ lastCall'.settled = "rejected")
     /\ (pc = "executeScript" /\ pc' # pc) => pc' \notin {"ping", "executeScript"}]_vars

\* the ping timed out and the script is being installed
C29_Witness ==
  /\ pc = "executeScript"
  /\ lastCall = [action |-> "PING", settled |-> "rejected",
                 message |-> "sendToTab timeout"]

----------------------------------------------------------------------------
----------------------------------------------------------------------------
\* C31: every request that carries an action gets exactly one response, with
\* a boolean success; an unknown action and an exception thrown in a handler
\* both get success = false with an error text; a message without an action
\* gets no response from the Agent.
C31_OneResponsePerRequest ==
  \A k \in DOMAIN handlers :
    LET h == handlers[k] IN
    /\ h.action = "" => (h.at = "ignored" /\ h.responses = <<>>)
    /\ h.action # "" => h.at \in {"running", "finished"}
    /\ h.at = "running" => h.responses = <<>>
    /\ h.at = "finished" =>
         /\ Len(h.responses) = 1
         /\ h.responses[1].success \in BOOLEAN
         /\ (h.action = "UNKNOWN" \/ h.threw) =>
              (~h.responses[1].success /\ h.responses[1].error # "")

\* an unknown action, a thrown exception and a message without an action
\* have all been handled
C31_Witness ==
  \E k, l \in DOMAIN handlers :
    /\ handlers[k].at = "finished" /\ handlers[k].threw
    /\ handlers[l].at = "ignored"

----------------------------------------------------------------------------
\* C32: when the wait for the invoice-detail URL after the click times out,
\* findClickAndScrapeInvoice goes on: it still extracts the tracking ids and
\* returns success with the ids found, which may be none.
C32_UrlTimeoutProceeds ==
  (find.matched > 0 /\ find.at \notin {"urlWait", "elementWait"} /\ ~find.navigated) =>
    /\ find.at = "returned"
    /\ find.reply.success
    /\ find.reply.trackingIds = scrapeTrackingIds(find.dom)

\* the URL wait timed out and ids were still found
C32_Witness ==
  /\ find.at = "returned"
  /\ find.matched > 0
  /\ ~find.navigated
  /\ find.reply.success
  /\ find.reply.trackingIds # <<>>

----------------------------------------------------------------------------
----------------------------------------------------------------------------
\* C34: whenever findClickAndScrapeInvoice has clicked and answers found,
\* the row it clicked has an amount cell whose normalized text equals the
\* normalized target, whichever strategy matched, and it is the first such
\* row of the document.
C34_ClickedRowHasTheAmount ==
  (find.at = "returned" /\ find.reply.success) =>
    /\ find.matched \in DOMAIN find.page.rows
    /\ normalizeAmount(find.page.rows[find.matched]) = find.target
    /\ find.matched =
         First({k \in DOMAIN Rendered(find.page) :
                  normalizeAmount(find.page.rows[k]) = find.target})

----------------------------------------------------------------------------
\* C35: a run emits exactly one DONE event, none before it ends and one when
\* it has ended, and the event carries either an error or the summary
\* counts, never both, whichever way the run ends.
C35_OneTerminalDone ==
  /\ pc # "done" => doneLog = <<>>
  /\ pc = "done" => Len(doneLog) = 1
  /\ \A k \in DOMAIN doneLog :
       ("error" \in DOMAIN doneLog[k]) # ("shipmentCount" \in DOMAIN doneLog[k])

\* the run has ended on a failed download
C35_Witness ==
  /\ pc = "done"
  /\ download = "failed"
  /\ Len(doneLog) = 1
  /\ "error" \in DOMAIN doneLog[1]

----------------------------------------------------------------------------
\* C36: every started run comes to its end and emits its DONE event, given
\* that the browser calls return: every wait of the Driver is bounded by a
\* timer, so an Agent that never answers cannot hang the run.
C36_RunTerminates == (pc # "idle") ~> (pc = "done" /\ Len(doneLog) = 1)

\* the run has ended although no Agent call was ever answered
C36_Witness ==
  /\ pc = "done"
  /\ Len(doneLog) = 1
  /\ listeners = 0
  /\ i > 0

----------------------------------------------------------------------------
\* C37: a handler of the Agent that spends the whole limit of every wait on
\* its way has returned, and so answered, before the timer the Driver set
\* for the call runs out: 90 s for the locate-and-open call, 30 s for the
\* scrape call.
C37_AnswersWithinTimeout ==
  waits.at = "returned" =>
    waits.elapsed <= IF waits.handler = "locate" THEN FindTimeout ELSE ScrapeTimeout

----------------------------------------------------------------------------
\* C38: within one run the percent of a PROGRESS message is never below the
\* percent of the PROGRESS message before it, and every percent lies
\* between 0 and 100.
C38_InRange ==
  percent # NoPercent =>
    AtMost(<<0, 1>>, percent) /\ AtMost(percent, <<100, 1>>)

C38_Step == (percent # NoPercent /\ percent' # NoPercent) => AtMost(percent, percent')

C38_ProgressNeverDecreases == []C38_InRange /\ [][C38_Step]_vars

----------------------------------------------------------------------------
\* One amount as a user writes it: an optional dollar sign, digits that are
\* either not grouped or grouped in threes by commas, and an optional
\* decimal part of one or two digits.
SingleAmount(s) ==
  LET b == IF s # <<>> /\ Head(s) = "$" THEN Tail(s) ELSE s
      points == {k \in DOMAIN b : b[k] = "."}
      n == IF points = {} THEN Len(b) ELSE (CHOOSE k \in points : TRUE) - 1
      whole == SubSeq(b, 1, n)
      grouped == \A k \in 1..n : (whole[k] = ",") <=> ((n - k + 1) % 4 = 0)
  IN  /\ Cardinality(points) <= 1
      /\ n >= 1
      /\ points # {} => Len(b) - n \in {2, 3}
      /\ \A k \in (n + 2)..Len(b) : IsDigit(b[k])
      /\ \A k \in 1..n : IsDigit(whole[k]) \/ whole[k] = ","
      /\ IsDigit(whole[1])
      /\ grouped \/ \A k \in 1..n : IsDigit(whole[k])

\* C39: for one amount typed by the user, with or without the dollar sign
\* and thousands separators, parseAmounts returns exactly one amount, and it
\* is normalizeAmount of what was typed.
C39_ParseAgreesWithNormalize ==
  (fn = "parseAmounts" /\ SingleAmount(str)) => out = <<normalizeAmount(str)>>

\* the same without thousands separators
C39_UngroupedAgrees ==
  (fn = "parseAmounts" /\ SingleAmount(str) /\ "," \notin Range(str)) =>
    out = <<normalizeAmount(str)>>

----------------------------------------------------------------------------
\* C40: the columns of a populated sheet are the preferred labels that some
\* shipment of the invoice carries, in the preferred order, followed by
\* every other label some shipment carries, in lexicographic order; each
\* label is a column once, and a shipment without a label has an empty cell
\* in its column.
C40_ColumnOrder ==
  LET Place(l) == CHOOSE k \in DOMAIN preferredOrder : preferredOrder[k] = l
      AsStated(ships, sheet) ==
        LET header == sheet[1]
            labels == UNION {DOMAIN ships[r] : r \in DOMAIN ships}
        IN  /\ Len(sheet) = 1 + Len(ships)
            /\ Range(header) = labels
            /\ \A a, b \in DOMAIN header : a < b =>
                  /\ header[a] # header[b]
                  /\ header[b] \in Range(preferredOrder) =>
                        /\ header[a] \in Range(preferredOrder)
                        /\ Place(header[a]) < Place(header[b])
                  /\ (header[a] \notin Range(preferredOrder)
                       /\ header[b] \notin Range(preferredOrder)) =>
                        Precedes(Chars(header[a]), Chars(header[b]))
            /\ \A r \in DOMAIN ships :
                  /\ Len(sheet[r + 1]) = Len(header)
                  /\ \A c \in DOMAIN header :
                        sheet[r + 1][c] = IF header[c] \in DOMAIN ships[r]
                                          THEN ships[r][header[c]] ELSE ""
  IN  (fn = "generateXlsx" /\ ~wb.threw) =>
        \A k \in DOMAIN entries :
          entries[k].invoiceData.shipments # <<>> =>
            AsStated(entries[k].invoiceData.shipments, wb.Sheets[k])

\* a workbook was built from a record with two shipments that carry
\* preferred and other labels, neither of them all of the labels
C40_Witness ==
  /\ fn = "generateXlsx"
  /\ ~wb.threw
  /\ \E k \in DOMAIN entries :
       LET ships == entries[k].invoiceData.shipments
       IN  /\ Len(ships) = 2
           /\ DOMAIN ships[1] # DOMAIN ships[2]
           /\ Len(wb.Sheets[k][1]) = 7
           /\ wb.Sheets[k][1][3] = "Sender Name"
           /\ wb.Sheets[k][1][4] = "Charge: Fuel"
           /\ wb.Sheets[k][2][4] = ""

====
